---- MODULE Spec2Model ----
(***************************************************************************)
(* px64: reactive scope-binding engine (src/px64.js).                      *)
(*                                                                         *)
(* The module models the observable store (observable / $observe / $set), *)
(* the update scheduler (batchUpdate and its deferred flush), the bind     *)
(* pass (bind / bindTree / walk / applyBinds / reactive /                  *)
(* registerObserver) with the text, value, tap, view, money and list       *)
(* binders, the delegated click listener, and the lifecycle (unbind /      *)
(* cleanupElement / the MutationObserver).                                 *)
(*                                                                         *)
(* Six specifications share the variables:                                 *)
(*   StoreSpec  the observable store driven through its public methods     *)
(*   ClosureSpec  the store and the re-use of unsubscribe closures         *)
(*   SchedSpec  the update scheduler driven by batchUpdate and the host    *)
(*   BindSpec   bind, $set on the bound scope and the scheduler flush      *)
(*   ListSpec   a bound list: render, re-render, unbind, removal detection *)
(*   LifeSpec   bind/unbind of a page with views, actions and inputs       *)
(***************************************************************************)
EXTENDS Integers, Sequences, FiniteSets, TLC

VARIABLES
    obj,                \* record id -> property -> value (the backing fields)
    OBS,                \* record id -> key -> listeners, in Set insertion order
    calls,              \* listener invocations made by the last $set, in order
    unsubCalled,        \* unsubscribe closures the application has called and still holds
    updateQueue,        \* the scheduler's pending callbacks, in Set insertion order
    isUpdateScheduled,  \* the scheduler's "armed" flag
    scheduledFlushes,   \* flush callbacks handed to requestAnimationFrame and not yet run
    schedCount,         \* callback -> batchUpdate calls in the pending window (after
                        \* a flush: in the window that flush ended)
    ran,                \* callbacks executed by the last flush, in order
    textContent,        \* element -> its textContent
    dataBind,           \* element -> its data-bind attribute (elements that have one)
    scopeIdAttr,        \* element -> its data-scope-id attribute (elements that have one)
    scopeRegistry,      \* scope id -> record
    scopeCounter,       \* the scope id counter
    elementObservers,   \* element -> cleanup closures registered for it, in Set order
    tapInstalled,       \* the elements with __px64TapInstalled
    observerStarted,    \* the MutationObserver has been started
    fnCounter,          \* closures created so far (gives each closure its identity)
    childNodes,         \* element -> its child elements, in document order
    dataTap,            \* element -> its data-tap attribute (elements that have one)
    elAttr,             \* << element, kind, name >> -> the attribute, class or style set on it
    warnings,           \* the messages given to console.warn, in order
    elValue,            \* element -> its value property (form controls)
    clickListeners,     \* element -> number of delegated click listeners added to it
    inputListeners,     \* the 'input' listeners added by value binders, in order
    mutations,          \* removed nodes the MutationObserver has not been told of yet
    listBinders,        \* the closures of the list binder calls made so far
    nodeCounter,        \* elements created by cloneNode so far
    cleaned,            \* every invocation of a cleanup closure so far, in order
    removedElems,       \* the elements that left the document with the nodes in mutations
    dispatched,         \* the binder calls of the last operation, in order
    fired,              \* the scope functions the last DOM event invoked, in order
    last                \* the last operation performed and its outcome

\* The program's state.
progVars == << obj, OBS, updateQueue, isUpdateScheduled, scheduledFlushes, textContent, dataBind,
               scopeIdAttr, scopeRegistry, scopeCounter, elementObservers,
               tapInstalled, observerStarted, fnCounter, childNodes, dataTap,
               elAttr, warnings, elValue, clickListeners, inputListeners, mutations, listBinders,
               nodeCounter >>

\* What the model records about the operations performed.
histVars == << calls, unsubCalled, schedCount, ran, cleaned, removedElems, dispatched,
              fired, last >>

vars == << progVars, histVars >>

storeVars == << obj, OBS, calls, unsubCalled >>
schedVars == << updateQueue, isUpdateScheduled, scheduledFlushes, schedCount, ran >>
domVars   == << textContent, dataBind, scopeIdAttr, scopeRegistry, scopeCounter,
                elementObservers, tapInstalled, observerStarted, fnCounter,
                childNodes, dataTap, elAttr, warnings, elValue, clickListeners,
                inputListeners,
                mutations, listBinders, nodeCounter, cleaned, removedElems,
                dispatched, fired >>

----------------------------------------------------------------------------
(* JavaScript strings are sequences of characters; "" is << >>.            *)

Digits == << "0", "1", "2", "3", "4", "5", "6", "7", "8", "9" >>

\* The decimal numeral of a natural number.
RECURSIVE Numeral(_)
Numeral(n) == IF n < 10 THEN << Digits[n + 1] >>
              ELSE Numeral(n \div 10) \o << Digits[(n % 10) + 1] >>

(* JavaScript values.  Every value has the same record shape, so that ===  *)
(* is record equality.                                                     *)

Num(n) == [t |-> "number", n |-> n, s |-> << >>, o |-> ""]
Str(x) == [t |-> "string", n |-> 0, s |-> x, o |-> ""]
Undefined == [t |-> "undefined", n |-> 0, s |-> << >>, o |-> ""]
Null == [t |-> "null", n |-> 0, s |-> << >>, o |-> ""]
\* A reference to the record o of the heap.
Ref(o) == [t |-> "object", n |-> 0, s |-> << >>, o |-> o]

\* The numbers fields are set to: the initial count and two later ones.
Nums == {Num(0), Num(5), Num(7)}

\* String(v), as the assignment to textContent converts a value.
ToStr(v) ==
    CASE v.t = "number"    -> Numeral(v.n)
      [] v.t = "string"    -> v.s
      [] v.t = "undefined" -> << "u", "n", "d", "e", "f", "i", "n", "e", "d" >>
      [] v.t = "null"      -> << "n", "u", "l", "l" >>
      [] OTHER             -> << "[", "o", "b", "j", "e", "c", "t", " ",
                                 "O", "b", "j", "e", "c", "t", "]" >>

\* v ?? ''
Coalesce(v) == IF v = Undefined \/ v = Null THEN Str(<< >>) ELSE v

\* An array: its identity and the ids of the records it holds.  Arrays are
\* never mutated in place.
Arr(id, items) == [t |-> "array", n |-> id, s |-> items, o |-> ""]

\* A function-valued property: the function called name.
Fn(name) == [t |-> "function", n |-> 0, s |-> << >>, o |-> name]

\* A DOM element, where an operation's record names one.
ElemVal(e) == [t |-> "element", n |-> 0, s |-> << >>, o |-> e]

\* !v for the values of the model.
Falsy(v) == v \in {Undefined, Null, Num(0), Str(<< >>)}

\* The string is a non-empty sequence of decimal digits.
IsNumeral(str) == str /= << >> /\ \A i \in 1..Len(str) : \E d \in 1..10 : Digits[d] = str[i]

\* The natural number a decimal numeral denotes.
RECURSIVE ParseNat(_)
ParseNat(str) ==
    IF str = << >> THEN 0
    ELSE 10 * ParseNat(SubSeq(str, 1, Len(str) - 1))
         + (CHOOSE d \in 0..9 : Digits[d + 1] = str[Len(str)])

\* The decimal separator of the host's default locale.
DecimalSeparator == "."

\* _moneyFmt.format(Number(v || 0)) for the money binder: two fraction
\* digits; NaN for what Number() does not convert.  (The numbers of the
\* model are naturals below 1000: no grouping, no rounding.)
MoneyFmt(v) ==
    LET w == IF Falsy(v) THEN Num(0) ELSE v
    IN  CASE w.t = "number" -> Numeral(w.n) \o << DecimalSeparator, "0", "0" >>
          [] w.t = "string" /\ IsNumeral(w.s) ->
                 Numeral(ParseNat(w.s)) \o << DecimalSeparator, "0", "0" >>
          [] OTHER -> << "N", "a", "N" >>

----------------------------------------------------------------------------
(* String operations.                                                      *)

\* String.prototype.split(sep) for a one-character separator.
RECURSIVE Split(_, _)
Split(str, sep) ==
    IF \A i \in 1..Len(str) : str[i] /= sep THEN << str >>
    ELSE LET i == CHOOSE i \in 1..Len(str) :
                      str[i] = sep /\ \A j \in 1..(i - 1) : str[j] /= sep
         IN  << SubSeq(str, 1, i - 1) >> \o Split(SubSeq(str, i + 1, Len(str)), sep)

\* Array.prototype.join(sep)
RECURSIVE Join(_, _)
Join(parts, sep) ==
    IF parts = << >> THEN << >>
    ELSE IF Len(parts) = 1 THEN parts[1]
    ELSE parts[1] \o << sep >> \o Join(Tail(parts), sep)

WhiteSpace == {" ", "\t", "\n"}

\* String.prototype.trim()
RECURSIVE Trim(_)
Trim(str) ==
    IF str = << >> THEN str
    ELSE IF str[1] \in WhiteSpace THEN Trim(Tail(str))
    ELSE IF str[Len(str)] \in WhiteSpace THEN Trim(SubSeq(str, 1, Len(str) - 1))
    ELSE str

\* String.prototype.includes(ch)
Includes(str, ch) == \E i \in 1..Len(str) : str[i] = ch

MapSeq(q, F(_)) == [i \in 1..Len(q) |-> F(q[i])]

----------------------------------------------------------------------------
(* Sequences used as insertion-ordered Sets.                               *)

Range(q) == {q[i] : i \in 1..Len(q)}

\* Set.prototype.add: appends unless already a member.
SetAdd(q, x) == IF x \in Range(q) THEN q ELSE Append(q, x)

\* Set.prototype.delete: removes the member, keeps the order of the rest.
SetDelete(q, x) == SelectSeq(q, LAMBDA y : y /= x)

NoDup(q) == \A i, j \in 1..Len(q) : q[i] = q[j] => i = j

Count(q, x) == Cardinality({i \in 1..Len(q) : q[i] = x})

\* F(e), with e evaluated once: const x = e; return F(x).
With(e, F(_)) == CHOOSE r \in {F(x) : x \in {e}} : TRUE

\* A JavaScript Map or attribute table f with f[k] set to v, and without k.
Put(f, k, v) == [x \in DOMAIN f \cup {k} |-> IF x = k THEN v ELSE f[x]]
Del(f, k) == [x \in DOMAIN f \ {k} |-> f[x]]

----------------------------------------------------------------------------
(* Records, properties, listeners.                                         *)

\* The records (plain objects) of the heap.
Objs == {"S"}

\* The property names used.  '*' is the store's wildcard key, and also a
\* legal property name.
CountKey == << "c", "o", "u", "n", "t" >>
Star == << "*" >>
Props == {CountKey, Star}

\* Further property names of the pages' scopes.
ItemsKey == << "i", "t", "e", "m", "s" >>
ListKey == << "l", "i", "s", "t" >>
DetailsKey == << "d", "e", "t", "a", "i", "l", "s" >>
UserKey == << "u", "s", "e", "r" >>
NameKey == << "n", "a", "m", "e" >>
GoKey == << "g", "o" >>

\* The names $observe is called with; '' is a falsy name.
ObserveArgs == Props \cup {<< >>}

\* A listener: a user function (name) or the applyFn closure that reactive
\* registers for a bound element (el, id).
UserFn(name) == [k |-> "user", name |-> name, el |-> "", id |-> 0]
ApplyFn(el, id) == [k |-> "apply", name |-> "", el |-> el, id |-> id]
\* The listeners of the value, money and list binders: v => apply(v), format
\* and rerender (of the list binder call inst).
ValueFn(el, id) == [k |-> "value", name |-> "", el |-> el, id |-> id]
MoneyFn(el, id) == [k |-> "money", name |-> "", el |-> el, id |-> id]
RerenderFn(el, inst) == [k |-> "rerender", name |-> "", el |-> el, id |-> inst]
NoFn == [k |-> "none", name |-> "", el |-> "", id |-> 0]
\* render of the table binder call inst.
TableRenderFn(el, inst) == [k |-> "table", name |-> "", el |-> el, id |-> inst]
\* The listeners of the attr, class, ternary and style binders; name holds
\* what the closure captured besides the element.
AttrFn(el, id, attrName) == [k |-> "attr", name |-> attrName, el |-> el, id |-> id]
ClassFn(el, id, cls, scope, path) ==
    [k |-> "class", name |-> [cls |-> cls, scope |-> scope, path |-> path],
     el |-> el, id |-> id]
TernaryFn(el, id, scope, parts) ==
    [k |-> "ternary", name |-> [scope |-> scope, parts |-> parts], el |-> el, id |-> id]
StyleFn(el, id, styleProperty) ==
    [k |-> "style", name |-> styleProperty, el |-> el, id |-> id]

\* User listeners: f1 and f2 return normally, f3 throws.
UserFnNames == {"f1", "f2", "f3"}
ThrowingFns == {"f3"}
UserFns == {UserFn(n) : n \in UserFnNames}

\* A scheduler callback: a user function (name) or the closure a text
\* binder's applyFn creates to write value v into element el.
UserCb(name) ==
    [k |-> "user", name |-> name, el |-> "", v |-> Undefined, id |-> 0, inst |-> 0]
WriteCb(el, v, id) ==
    [k |-> "write", name |-> "", el |-> el, v |-> v, id |-> id, inst |-> 0]
\* The closure a list binder's render() hands to batchUpdate: it renders
\* rows for the list binder call inst.
RenderCb(el, inst, rows, id) ==
    [k |-> "render", name |-> "", el |-> el, v |-> Arr(0, rows), id |-> id, inst |-> inst]

\* The closure the style binder's applyFn hands to batchUpdate:
\*   () => { el.style[styleProperty] = v || '' }
StyleCb(el, styleProperty, v, id) ==
    [k |-> "style", name |-> "", el |-> el,
     v |-> [styleProperty |-> styleProperty, v |-> v], id |-> id, inst |-> 0]
\* The closure the ternary binder's apply hands to batchUpdate; parts are
\* conditionPath, trueValue and falseValue.
TernaryCb(el, scope, parts, id) ==
    [k |-> "ternary", name |-> "", el |-> el,
     v |-> [scope |-> scope, parts |-> parts], id |-> id, inst |-> 0]

\* User callbacks: c1 and c2 return normally, c3 throws, c4 calls
\* batchUpdate(c1) and batchUpdate(c2) while it runs.
UserCbNames == {"c1", "c2", "c3", "c4"}
ThrowingCbs == {"c3"}
Reschedules(name) == IF name = "c4" THEN << "c1", "c2" >> ELSE << >>

----------------------------------------------------------------------------
(* Path resolver.                                                          *)

\* acc[k] in the heap H, for a value acc that is neither null nor undefined.
GetProp(H, acc, k) ==
    IF acc.t = "object" /\ acc.o \in DOMAIN H /\ k \in DOMAIN H[acc.o]
    THEN H[acc.o][k]
    ELSE Undefined

\* The TypeError a property access on null or undefined throws, in the
\* place of the value of the expression.
TypeError == [t |-> "error", n |-> 0, s |-> << >>, o |-> "TypeError"]

\* acc[k] for any value acc.
Member(H, acc, k) ==
    IF acc = Null \/ acc = Undefined THEN TypeError ELSE GetProp(H, acc, k)

\* The reducer without its guard: (acc, k) => acc[k].
RECURSIVE ResolveKeysNoGuard(_, _, _)
ResolveKeysNoGuard(H, acc, keys) ==
    IF keys = << >> \/ acc = TypeError THEN acc
    ELSE ResolveKeysNoGuard(H, Member(H, acc, keys[1]), Tail(keys))

\* keys.reduce((acc, k) => { if (acc === null || acc === undefined)
\* return undefined; return acc[k] }, scope)
RECURSIVE ResolveKeys(_, _, _)
ResolveKeys(H, acc, keys) ==
    IF keys = << >> THEN acc
    ELSE ResolveKeys(H, IF acc = Null \/ acc = Undefined THEN Undefined
                        ELSE Member(H, acc, keys[1]),
                     Tail(keys))

\* resolvePath(scope, path) in the heap H.
ResolvePath(H, scope, path) ==
    IF path = << >> THEN scope
    ELSE LET keys == SelectSeq(Split(path, "."), LAMBDA k : k /= << >>)
         IN  IF keys = << >> THEN scope ELSE ResolveKeys(H, scope, keys)

----------------------------------------------------------------------------
(* Update scheduler: batchUpdate.  st carries the scheduler state (queue,  *)
(* armed) through a handler together with the invocation log and the       *)
(* exception flag.  A closure created for batchUpdate is a fresh object:   *)
(* its id is its position in the Set, which only grows until it is cleared.*)

\* batchUpdate on an array instead of a Set.
BatchUpdateNoDedupe(st, fn) ==
    IF st.armed THEN [st EXCEPT !.queue = Append(@, fn)]
    ELSE [st EXCEPT !.queue = Append(@, fn), !.armed = TRUE, !.sched = @ + 1]

\* batchUpdate without the isUpdateScheduled test: every call schedules a
\* flush.
BatchUpdateAlwaysSchedules(st, fn) ==
    [st EXCEPT !.queue = SetAdd(@, fn), !.armed = TRUE, !.sched = @ + 1]

\* batchUpdate(updateFn): add to the Set; if no flush is armed, set the
\* flag and hand the flush to requestAnimationFrame.
BatchUpdate(st, fn) ==
    IF st.armed THEN [st EXCEPT !.queue = SetAdd(@, fn)]
    ELSE [st EXCEPT !.queue = SetAdd(@, fn), !.armed = TRUE, !.sched = @ + 1]

----------------------------------------------------------------------------
(* Observable store.                                                       *)

\* $observe: const key = prop || '*'
ObserveKey(prop) == IF prop = << >> THEN Star ELSE prop

\* The applyFn of the text binder:
\*   (v) => batchUpdate(() => { el.textContent = v ?? '' })
\* Every call creates a new closure.
ApplyText(st, el, v) == BatchUpdate(st, WriteCb(el, v, Len(st.queue) + 1))

\* The fields and the method of a listState that render() uses.
PageKey == << "p", "a", "g", "e" >>
PageSizeKey == << "p", "a", "g", "e", "S", "i", "z", "e" >>
SortKeyKey == << "s", "o", "r", "t", "K", "e", "y" >>
SortDirKey == << "s", "o", "r", "t", "D", "i", "r" >>
TotalKey == << "t", "o", "t", "a", "l" >>
PagedKey == << "p", "a", "g", "e", "d" >>
Asc == << "a", "s", "c" >>
Desc == << "d", "e", "s", "c" >>

\* by(k, dir)(a, b) for rows a and b whose k is a number or undefined:
\* -1, 0 or 1.
By(H, k, dir, a, b) ==
    LET mult == IF dir = Str(Desc) THEN -1 ELSE 1
        av   == GetProp(H, Ref(a), k)
        bv   == GetProp(H, Ref(b), k)
    IN  IF av = bv THEN 0
        ELSE IF av = Undefined THEN mult
        ELSE IF bv = Undefined THEN -mult
        ELSE IF av.n > bv.n THEN mult ELSE -mult

\* Array.prototype.sort with the comparator by(k, dir): a stable sort, here
\* by insertion.
RECURSIVE Sort(_, _, _, _)
Sort(H, k, dir, items) ==
    IF items = << >> THEN << >>
    ELSE LET n    == Len(items)
             x    == items[n]
             done == Sort(H, k, dir, SubSeq(items, 1, n - 1))
             \* x goes behind the last element that is not after it
             keep == {i \in 1..Len(done) : By(H, k, dir, done[i], x) <= 0}
             at   == IF keep = {} THEN 0 ELSE CHOOSE i \in keep : \A j \in keep : j <= i
         IN  SubSeq(done, 1, at) \o << x >> \o SubSeq(done, at + 1, Len(done))

\* Array.prototype.slice(start, end) for an end that is not negative.
Slice(items, start, end) ==
    LET n    == Len(items)
        from == IF start < 0 THEN (IF n + start < 0 THEN 0 ELSE n + start)
                ELSE IF start > n THEN n ELSE start
        to   == IF end > n THEN n ELSE end
    IN  IF from >= to THEN << >> ELSE SubSeq(items, from + 1, to)

\* state.sorted(): items, or a sorted copy when sortKey is set.
Sorted(H, state) ==
    LET items   == GetProp(H, state, ItemsKey).s
        sortKey == GetProp(H, state, SortKeyKey)
    IN  IF Falsy(sortKey) THEN items
        ELSE Sort(H, sortKey.s, GetProp(H, state, SortDirKey), items)

\* state.paged(): the pageSize rows of page page of state.sorted().
Paged(H, state) ==
    LET page     == GetProp(H, state, PageKey).n
        pageSize == GetProp(H, state, PageSizeKey).n
        start    == (page - 1) * pageSize
    IN  Slice(Sorted(H, state), start, start + pageSize)

\* The visible rows: state.paged ? state.paged() : (state.items || [])
VisibleRows(H, state) ==
    IF ~Falsy(GetProp(H, state, PagedKey)) THEN Paged(H, state)
    ELSE LET items == GetProp(H, state, ItemsKey)
         IN  IF items.t = "array" THEN items.s ELSE << >>

\* render() of the list binder call inst, for a host without data-meta:
\* unless the visible rows equal, element by element, the rows rendered
\* last, a closure that renders them is handed to batchUpdate.
Render(st, inst) ==
    With(VisibleRows(st.obj, st.lists[inst].state),
         LAMBDA rows :
             IF rows = st.lists[inst].last THEN st
             ELSE BatchUpdate(st, RenderCb(st.lists[inst].el, inst, rows,
                                           Len(st.queue) + 1)))

DataMeta == << "d", "a", "t", "a", "-", "m", "e", "t", "a" >>
ColsName == << "c", "o", "l", "s" >>

\* The columns of a table from its data-meta attribute:
\*   meta = attr.split(';').reduce((a, s) => { const [k, v] = s.split(':');
\*              if (k) a[k.trim()] = (v || '').trim(); return a }, {})
\*   cols = (meta.cols || '').split(',').map(s => s.trim()).filter(Boolean)
MetaCols(attr) ==
    LET entries == SelectSeq(MapSeq(Split(attr, ";"), LAMBDA e : Split(e, ":")),
                             LAMBDA kv : kv[1] /= << >> /\ Trim(kv[1]) = ColsName)
        kv      == entries[Len(entries)]
        v       == IF entries = << >> \/ Len(kv) < 2 THEN << >> ELSE Trim(kv[2])
    IN  SelectSeq(MapSeq(Split(v, ","), Trim), LAMBDA c : c /= << >>)

\* The elements the table binder creates in the table el.  An element
\* created in the place of a discarded one takes its name.
THead(el) == el \o ".thead"
TBody(el) == el \o ".tbody"
HeadRow(el) == el \o ".thead.tr"
Th(el, j) == el \o ".th" \o ToString(j)
Tr(el, i) == el \o ".tr" \o ToString(i)
Td(el, i, j) == el \o ".tr" \o ToString(i) \o ".td" \o ToString(j)

\* renderHead() of the table binder call inst: thead = el.tHead ||
\* el.createTHead(), emptied, then one row with a th per column, whose text
\* and dataset.sortKey are the column's name.
RenderHead(st, inst) ==
    With([el   |-> st.lists[inst].el,
          cols |-> st.lists[inst].cols,
          ths  |-> [j \in 1..Len(st.lists[inst].cols) |-> Th(st.lists[inst].el, j)]],
         LAMBDA c :
    With({THead(c.el), HeadRow(c.el)} \cup Range(c.ths),
         LAMBDA new :
    With([e \in Range(c.ths) |-> c.cols[CHOOSE j \in 1..Len(c.cols) : c.ths[j] = e]],
         LAMBDA colOf :
        [st EXCEPT
           !.kids = [e \in DOMAIN @ \cup new |->
                        CASE e = c.el          -> IF THead(c.el) \in Range(@[e]) THEN @[e]
                                                  ELSE << THead(c.el) >> \o @[e]
                          [] e = THead(c.el)   -> << HeadRow(c.el) >>
                          [] e = HeadRow(c.el) -> c.ths
                          [] e \in Range(c.ths) -> << >>
                          [] OTHER             -> @[e]],
           !.text = [e \in DOMAIN @ \cup new |->
                        IF e \in Range(c.ths) THEN colOf[e]
                        ELSE IF e \in new THEN << >> ELSE @[e]],
           !.attr = [a \in DOMAIN @ \cup {<< th, "data", SortKeyKey >> :
                                              th \in Range(c.ths)} |->
                        IF a[1] \in Range(c.ths) /\ a[2] = "data"
                        THEN colOf[a[1]] ELSE @[a]]])))

\* The elements of the body of the table el: its rows and their cells.
BodyElems(kids, el) ==
    IF TBody(el) \in DOMAIN kids
    THEN Range(kids[TBody(el)]) \cup UNION {Range(kids[r]) : r \in Range(kids[TBody(el)])}
    ELSE {}

\* renderBody() of the table binder call inst: tbody = el.tBodies[0] ||
\* el.createTBody(), emptied, then one tr per visible row with one td per
\* column, whose text is row[c] ?? ''.
RenderBody(st, inst) ==
    With([el   |-> st.lists[inst].el,
          cols |-> st.lists[inst].cols,
          rows |-> VisibleRows(st.obj, st.lists[inst].state),
          had  |-> TBody(st.lists[inst].el) \in DOMAIN st.kids,
          old  |-> BodyElems(st.kids, st.lists[inst].el)],
         LAMBDA c :
    With([i \in 1..Len(c.rows) |-> Tr(c.el, i)],
         LAMBDA trs :
    With([e \in Range(trs) |->
             [j \in 1..Len(c.cols) |->
                 Td(c.el, CHOOSE i \in 1..Len(c.rows) : trs[i] = e, j)]],
         LAMBDA tds :
    With(UNION {{[td |-> tds[trs[i]][j],
                  text |-> ToStr(Coalesce(GetProp(st.obj, Ref(c.rows[i]), c.cols[j])))] :
                    j \in 1..Len(c.cols)} : i \in 1..Len(c.rows)},
         LAMBDA cells :
    With([e \in {x.td : x \in cells} |-> (CHOOSE x \in cells : x.td = e).text],
         LAMBDA cellText :
    With({TBody(c.el)} \cup Range(trs) \cup DOMAIN cellText,
         LAMBDA new :
        [st EXCEPT
           !.kids = [e \in (DOMAIN @ \ c.old) \cup new |->
                        CASE e = c.el          -> IF c.had THEN @[e]
                                                  ELSE Append(@[e], TBody(c.el))
                          [] e = TBody(c.el)   -> trs
                          [] e \in Range(trs)  -> tds[e]
                          [] e \in DOMAIN cellText -> << >>
                          [] OTHER             -> @[e]],
           !.text = [e \in (DOMAIN @ \ c.old) \cup new |->
                        IF e \in DOMAIN cellText THEN cellText[e]
                        ELSE IF e \in new THEN << >> ELSE @[e]]]))))))

\* render() of the table binder: if (!el.tHead) renderHead(); renderBody()
TableRender(st, inst) ==
    IF THead(st.lists[inst].el) \in Range(st.kids[st.lists[inst].el])
    THEN RenderBody(st, inst)
    ELSE With(RenderHead(st, inst), LAMBDA s : RenderBody(s, inst))

\* el.classList.toggle(cls, force)
ToggleClass(A, el, cls, force) ==
    IF force THEN Put(A, << el, "class", cls >>, << >>) ELSE Del(A, << el, "class", cls >>)

\* What the listeners of the value, money, list, attr, class, ternary and
\* style binders do with their first argument.
ListenerEffect(st, fn, args) ==
    CASE fn.k = "value"    -> [st EXCEPT !.val = Put(@, fn.el, ToStr(Coalesce(args[1])))]
      [] fn.k = "money"    -> [st EXCEPT !.text = Put(@, fn.el, MoneyFmt(args[1]))]
      [] fn.k = "rerender" -> Render(st, fn.id)
      [] fn.k = "table"    -> TableRender(st, fn.id)
      [] fn.k = "attr"     ->
             [st EXCEPT !.attr = Put(@, << fn.el, "attr", fn.name >>,
                                     ToStr(Coalesce(args[1])))]
      [] fn.k = "class"    ->
             [st EXCEPT !.attr = ToggleClass(@, fn.el, fn.name.cls,
                                    ~Falsy(ResolvePath(st.obj, fn.name.scope,
                                                       fn.name.path)))]
      [] fn.k = "ternary"  ->
             BatchUpdate(st, TernaryCb(fn.el, fn.name.scope, fn.name.parts,
                                       Len(st.queue) + 1))
      [] fn.k = "style"    ->
             BatchUpdate(st, StyleCb(fn.el, fn.name, args[1], Len(st.queue) + 1))
      [] OTHER             -> st

\* A variant in which applyFn passes one shared closure per (el, v) to
\* batchUpdate instead of a new one.
InvokeListenerSharedClosure(st, fn, kind, args, seen) ==
    LET st1 == [st EXCEPT !.log = Append(@, [fn |-> fn, kind |-> kind,
                                               args |-> args, seen |-> seen])]
    IN  CASE fn.k = "user" ->
               IF fn.name \in ThrowingFns THEN [st1 EXCEPT !.threw = TRUE] ELSE st1
          [] fn.k = "apply" -> BatchUpdate(st1, WriteCb(fn.el, args[1], 0))
          [] OTHER -> ListenerEffect(st1, fn, args)

\* One listener is invoked.  kind is "key" for fn(value, old) and "any" for
\* fn(prop, value, old); seen is the field's value at that moment.
InvokeListener(st, fn, kind, args, seen) ==
    LET st1 == [st EXCEPT !.log = Append(@, [fn |-> fn, kind |-> kind,
                                               args |-> args, seen |-> seen])]
    IN  CASE fn.k = "user" ->
               IF fn.name \in ThrowingFns THEN [st1 EXCEPT !.threw = TRUE] ELSE st1
          [] fn.k = "apply" -> ApplyText(st1, fn.el, args[1])
          [] OTHER -> ListenerEffect(st1, fn, args)

\* Set.forEach over the listeners; an exception ends the iteration.
RECURSIVE ForEachListener(_, _, _, _, _, _)
ForEachListener(st, fns, i, kind, args, seen) ==
    IF st.threw \/ i > Len(fns) THEN st
    ELSE With(InvokeListener(st, fns[i], kind, args, seen),
              LAMBDA s : ForEachListener(s, fns, i + 1, kind, args, seen))

\* obj[OBS].get(key), an absent key giving no listeners.
ListenersOf(O, o, key) == IF key \in DOMAIN O[o] THEN O[o][key] ELSE << >>

\* notify with the wildcard listeners first.
NotifyAnyFirst(st, O, o, prop, value, old, seen) ==
    With(ForEachListener(st, ListenersOf(O, o, Star), 1, "any",
                         << Str(prop), value, old >>, seen),
         LAMBDA st1 :
             IF st1.threw THEN st1
             ELSE ForEachListener(st1, ListenersOf(O, o, prop), 1, "key",
                                  << value, old >>, seen))

\* notify without the wildcard listeners.
NotifyKeyOnly(st, O, o, prop, value, old, seen) ==
    ForEachListener(st, ListenersOf(O, o, prop), 1, "key", << value, old >>, seen)

\* notify(prop, value, old): the listeners of prop, then the listeners of '*'.
Notify(st, O, o, prop, value, old, seen) ==
    With(ForEachListener(st, ListenersOf(O, o, prop), 1, "key", << value, old >>, seen),
         LAMBDA st1 :
             IF st1.threw THEN st1
             ELSE ForEachListener(st1, ListenersOf(O, o, Star), 1, "any",
                                  << Str(prop), value, old >>, seen))

\* The state a handler starts from: the program's state, an empty
\* invocation log and no exception.
Handler == [queue |-> updateQueue, armed |-> isUpdateScheduled,
            sched |-> scheduledFlushes,
            log |-> << >>, threw |-> FALSE, text |-> textContent,
            obj |-> obj, OBS |-> OBS, eo |-> elementObservers, ctr |-> fnCounter,
            bind |-> dataBind, sid |-> scopeIdAttr, reg |-> scopeRegistry,
            sctr |-> scopeCounter, tapi |-> tapInstalled,
            started |-> observerStarted, kids |-> childNodes, tap |-> dataTap,
            attr |-> elAttr, warn |-> warnings,
            val |-> elValue, clk |-> clickListeners, inl |-> inputListeners,
            muts |-> mutations, lists |-> listBinders, nodes |-> nodeCounter,
            cleaned |-> cleaned, gone |-> removedElems, disp |-> << >>,
            fired |-> << >>]

\* The program's state when a handler ends in st.
Commit(st) ==
    /\ updateQueue' = st.queue
    /\ isUpdateScheduled' = st.armed
    /\ scheduledFlushes' = st.sched
    /\ textContent' = st.text
    /\ obj' = st.obj
    /\ OBS' = st.OBS
    /\ elementObservers' = st.eo
    /\ fnCounter' = st.ctr
    /\ dataBind' = st.bind
    /\ scopeIdAttr' = st.sid
    /\ scopeRegistry' = st.reg
    /\ scopeCounter' = st.sctr
    /\ tapInstalled' = st.tapi
    /\ observerStarted' = st.started
    /\ childNodes' = st.kids
    /\ dataTap' = st.tap
    /\ elAttr' = st.attr
    /\ warnings' = st.warn
    /\ elValue' = st.val
    /\ clickListeners' = st.clk
    /\ inputListeners' = st.inl
    /\ mutations' = st.muts
    /\ listBinders' = st.lists
    /\ nodeCounter' = st.nodes

\* The record of the last operation: its name, its arguments, the value the
\* field held before it, and whether it threw.
Op(name, o, key, fn, value, old, threw) ==
    [op |-> name, o |-> o, key |-> key, fn |-> fn, value |-> value, old |-> old,
     threw |-> threw]

NoOp == Op("init", "", << >>, NoFn, Undefined, Undefined, FALSE)

\* The values application code sets a field of the store to.
StoreVals == {Num(5), Undefined}

\* $set without the old === value test.
SetNoEqualityCheck(o, prop, value) ==
    LET old == obj[o][prop]
    IN  \E st \in {Notify([Handler EXCEPT !.obj[o][prop] = value], OBS, o, prop,
                           value, old, value)} :
            /\ Commit(st)
            /\ calls' = st.log
            /\ last' = Op("set", o, prop, NoFn, value, old, st.threw)

\* $set that notifies before it assigns the field.
SetNotifyBeforeStore(o, prop, value) ==
    LET old == obj[o][prop]
    IN  IF old = value
        THEN /\ UNCHANGED progVars
             /\ calls' = << >>
             /\ last' = Op("set", o, prop, NoFn, value, old, FALSE)
        ELSE \E st \in {Notify(Handler, OBS, o, prop, value, old, old)} :
                 /\ Commit([st EXCEPT !.obj[o][prop] = value])
                 /\ calls' = st.log
                 /\ last' = Op("set", o, prop, NoFn, value, old, st.threw)

\* obj.$set(prop, value)
Set(o, prop, value) ==
    LET old == obj[o][prop]
    IN  IF old = value
        THEN /\ UNCHANGED progVars
             /\ calls' = << >>
             /\ last' = Op("set", o, prop, NoFn, value, old, FALSE)
        ELSE \E st \in {Notify([Handler EXCEPT !.obj[o][prop] = value], OBS, o, prop,
                                value, old, value)} :
                 /\ Commit(st)
                 /\ calls' = st.log
                 /\ last' = Op("set", o, prop, NoFn, value, old, st.threw)

\* The closure $observe returns, identified by what it captures.
Closure(o, key, fn) == [o |-> o, key |-> key, fn |-> fn]

\* obj.$observe(prop, fn) on the listener maps O; it returns
\* Closure(o, ObserveKey(prop), fn).  The Map is kept total over Props, an
\* absent key being the empty Set.
ObserveMap(O, o, prop, fn) ==
    LET key == ObserveKey(prop)
    IN  [O EXCEPT ![o] = IF key \in DOMAIN @ THEN [@ EXCEPT ![key] = SetAdd(@, fn)]
                         ELSE Put(@, key, << fn >>)]

Observe(o, prop, fn) ==
    /\ OBS' = ObserveMap(OBS, o, prop, fn)
    /\ last' = Op("observe", o, << >>, NoFn, Undefined, Undefined, FALSE)

\* An unsubscribe closure that clears the whole Set of its key.
UnsubscribeWholeKey(o, key, fn) ==
    OBS' = [OBS EXCEPT ![o][key] = << >>]

\* The closure $observe returns: () => obj[OBS].get(key).delete(fn)
Unsubscribe(o, key, fn) ==
    OBS' = [OBS EXCEPT ![o][key] = SetDelete(@, fn)]

----------------------------------------------------------------------------
(* The document.                                                           *)

\* document.body, and the result of resolving a root that is not found.
Body == "body"
NoElem == ""

\* The elements of the page of BindSpec: a root with two children.
Elems == {"root", "a", "b"}

\* el.children on that page.
Children(e) == IF e = "root" THEN << "a", "b" >> ELSE << >>

\* The commands used in the markup.
TextCmd == << "t", "e", "x", "t" >>
TapCmd == << "t", "a", "p" >>
ViewCmd == << "v", "i", "e", "w" >>
ValueCmd == << "v", "a", "l", "u", "e" >>
MoneyCmd == << "m", "o", "n", "e", "y" >>
TableCmd == << "t", "a", "b", "l", "e" >>
TernaryCmd == << "t", "e", "r", "n", "a", "r", "y" >>
StyleCmd == << "s", "t", "y", "l", "e" >>
AttrCmd == << "a", "t", "t", "r" >>
ClassCmd == << "c", "l", "a", "s", "s" >>
ListCmd == << "l", "i", "s", "t" >>

\* Attribute values used in the markup.
AttrTextCount == TextCmd \o << ":" >> \o CountKey
AttrShorthand == CountKey
AttrSpaced == << " " >> \o TextCmd \o << " ", ":", " " >> \o CountKey
                  \o << " ", ",", "z", "z", ":" >> \o CountKey \o << "," >>
Placeholder == << "-" >>

----------------------------------------------------------------------------
(* Binder registry and dispatch.                                           *)

\* One token of parseBinds: split on ':', trim the parts; a single part is
\* the text shorthand, otherwise the first part is the command and the rest,
\* joined with ':' again, the argument.
\* The token parser that takes the second part for the argument.
ParseTokenSecondPart(tok) ==
    LET parts == MapSeq(Split(tok, ":"), Trim)
    IN  IF Len(parts) = 1 THEN [cmd |-> TextCmd, arg |-> parts[1]]
        ELSE [cmd |-> parts[1], arg |-> parts[2]]

ParseToken(tok) ==
    LET parts == MapSeq(Split(tok, ":"), Trim)
    IN  IF Len(parts) = 1 THEN [cmd |-> TextCmd, arg |-> parts[1]]
        ELSE [cmd |-> parts[1], arg |-> Join(Tail(parts), ":")]

\* parseBinds(str)
ParseBinds(str) ==
    MapSeq(SelectSeq(MapSeq(Split(str, ","), Trim), LAMBDA t : t /= << >>), ParseToken)

\* registerObserver(element, cleanupFn) on the WeakMap eo.
RegisterObserver(eo, el, cleanupFn) ==
    IF el \in DOMAIN eo
    THEN [eo EXCEPT ![el] = SetAdd(@, cleanupFn)]
    ELSE Put(eo, el, << cleanupFn >>)

\* parent && parent.$observe
HasObserve(O, v) == v.t = "object" /\ v.o \in DOMAIN O

\* The parent record and the key that a binder observes for a dotted path:
\*   keys = path.split('.'); lastKey = keys.pop();
\*   parent = keys.length ? resolvePath(scope, keys.join('.')) : scope
LastKey(path) == LET keys == Split(path, ".") IN keys[Len(keys)]
ParentPath(path) == LET keys == Split(path, ".")
                    IN  Join(SubSeq(keys, 1, Len(keys) - 1), ".")
ParentOf(H, scope, path) ==
    IF Len(Split(path, ".")) > 1 THEN ResolvePath(H, scope, ParentPath(path)) ELSE scope

\* The $observe/registerObserver half of reactive.
Subscribe(st, el, scope, path, fn) ==
    With(<< LastKey(path), ParentOf(st.obj, scope, path) >>,
         LAMBDA p :
             \* p[1] is lastKey, p[2] is parent
             IF HasObserve(st.OBS, p[2])
             THEN [st EXCEPT !.OBS = ObserveMap(@, p[2].o, p[1], fn),
                             !.eo  = RegisterObserver(@, el,
                                         Closure(p[2].o, ObserveKey(p[1]), fn))]
             ELSE st)

\* reactive without the initial call of applyFn.
ReactiveNoInitialCall(st, el, scope, path) ==
    Subscribe([st EXCEPT !.ctr = @ + 1], el, scope, path, ApplyFn(el, st.ctr + 1))

\* reactive(el, scope, path, applyFn) for the text binder's applyFn: the
\* initial call of applyFn, then $observe on the parent of the last key.
Reactive(st, el, scope, path) ==
    With(ApplyText([st EXCEPT !.ctr = @ + 1], el, ResolvePath(st.obj, scope, path)),
         LAMBDA st1 : Subscribe(st1, el, scope, path, ApplyFn(el, st.ctr + 1)))

\* The text binder.
TextBinder(st, el, scope, arg) ==
    With(IF arg /= << >> THEN arg ELSE st.bind[el],
         LAMBDA path :
             Reactive(st, el, scope,
                      IF Includes(path, ":") THEN Split(path, ":")[2] ELSE path))

\* The tap binder: el.setAttribute('data-tap', arg)
TapBinder(st, el, scope, arg) == [st EXCEPT !.tap = Put(@, el, arg)]

\* The value binder: the initial apply(parent[key]), which throws a
\* TypeError when parent is null or undefined; the observer v => apply(v),
\* registered for the element; the 'input' listener.
ValueBinder(st, el, scope, arg) ==
    With(<< LastKey(arg), ParentPath(arg) >>,
         LAMBDA k :
    With(IF k[2] /= << >> THEN ResolvePath(st.obj, scope, k[2]) ELSE scope,
         LAMBDA parent :
             \* k[1] is key; fn is the observer v => apply(v)
             LET fn == ValueFn(el, st.ctr + 1)
             IN  IF parent \in {Undefined, Null} THEN [st EXCEPT !.threw = TRUE]
                 ELSE IF HasObserve(st.OBS, parent)
                 THEN [st EXCEPT !.val = Put(@, el, ToStr(Coalesce(GetProp(st.obj, parent, k[1])))),
                                 !.ctr = @ + 1,
                                 !.OBS = ObserveMap(@, parent.o, k[1], fn),
                                 !.eo  = RegisterObserver(@, el,
                                             Closure(parent.o, ObserveKey(k[1]), fn)),
                                 !.inl = Append(@, [el |-> el, parent |-> parent,
                                                    key |-> k[1]])]
                 ELSE [st EXCEPT !.val = Put(@, el, ToStr(Coalesce(GetProp(st.obj, parent, k[1])))),
                                 !.ctr = @ + 1,
                                 !.inl = Append(@, [el |-> el, parent |-> parent,
                                                    key |-> k[1]])]))

\* The money binder: the initial format(resolvePath(scope, arg)), then
\* parent.$observe(key, format), whose unsubscribe closure is dropped.
MoneyBinder(st, el, scope, arg) ==
    With(ResolvePath(st.obj, scope, ParentPath(arg)),
         LAMBDA p0 :
             LET parent == IF Falsy(p0) THEN scope ELSE p0
             IN  IF HasObserve(st.OBS, parent)
                 THEN [st EXCEPT !.text = Put(@, el, MoneyFmt(ResolvePath(st.obj, scope, arg))),
                                 !.ctr  = @ + 1,
                                 !.OBS  = ObserveMap(@, parent.o, LastKey(arg),
                                                     MoneyFn(el, st.ctr + 1))]
                 ELSE [st EXCEPT !.text = Put(@, el, MoneyFmt(ResolvePath(st.obj, scope, arg))),
                                 !.ctr  = @ + 1])

\* observable whose every call defines a new, empty listener Map.
ObservableNewMap(O, H, o) == Put(O, o, [p \in Props |-> << >>])

\* observable without the wrapping of nested objects.
ObservableTopOnly(O, H, o) ==
    IF o \in DOMAIN O THEN O ELSE Put(O, o, [p \in Props |-> << >>])

\* observable(obj) for the record o of the heap H, on the listener Maps O:
\* return if the record has a Map; otherwise define an empty one (kept total
\* over Props) and upgrade the plain records its fields refer to.
RECURSIVE Observable(_, _, _)
RECURSIVE ObservableEach(_, _, _)
ObservableEach(O, H, os) ==
    IF os = {} THEN O
    ELSE With(CHOOSE x \in os : TRUE,
              LAMBDA o : With(Observable(O, H, o),
                              LAMBDA O1 : ObservableEach(O1, H, os \ {o})))

Observable(O, H, o) ==
    IF o \in DOMAIN O THEN O
    ELSE ObservableEach(Put(O, o, [p \in Props |-> << >>]), H,
                        {H[o][k].o : k \in {k \in DOMAIN H[o] : H[o][k].t = "object"}})

Digits36 == Digits \o << "a", "b", "c", "d", "e", "f", "g", "h", "i", "j", "k", "l", "m",
                         "n", "o", "p", "q", "r", "s", "t", "u", "v", "w", "x", "y", "z" >>

\* Number.prototype.toString(36)
RECURSIVE Base36(_)
Base36(n) == IF n < 36 THEN << Digits36[n + 1] >>
             ELSE Base36(n \div 36) \o << Digits36[(n % 36) + 1] >>

\* assignScopeId(host, scope)
AssignScopeId(st, host, scope) ==
    LET sid == Base36(st.sctr + 1)
    IN  [st EXCEPT !.sctr = @ + 1, !.sid = Put(@, host, sid), !.reg = Put(@, sid, scope)]

\* The template of a list: findTemplate(host) for a host without a
\* <template> element: a deep clone of its first child, or else the
\* fallback <div data-bind="text:name"></div>.  The rows of the pages are
\* leaves whose only attribute is data-bind; bind is << >> for a clone
\* without one and << attr >> otherwise.
FindTemplate(st, host) ==
    IF st.kids[host] /= << >>
    THEN LET c == st.kids[host][1]
         IN  [bind |-> IF c \in DOMAIN st.bind THEN << st.bind[c] >> ELSE << >>,
              text |-> st.text[c]]
    ELSE [bind |-> << TextCmd \o << ":", "n", "a", "m", "e" >> >>, text |-> << >>]

\* The commands of the registry that the pages use.
Binders == {TextCmd, TapCmd, ViewCmd, ValueCmd, MoneyCmd, ListCmd, TableCmd,
            TernaryCmd, StyleCmd, AttrCmd, ClassCmd}

RECURSIVE Walk(_, _, _)

\* toArray(el.children).forEach(ch => walk(ch, obs, ...)); an exception
\* ends the iteration.
RECURSIVE WalkEach(_, _, _, _)
WalkEach(st, kids, i, scope) ==
    IF st.threw \/ i > Len(kids) THEN st
    ELSE With(Walk(st, kids[i], scope), LAMBDA s : WalkEach(s, kids, i + 1, scope))

\* The view binder: resolve the nested scope, return if it is falsy, upgrade
\* it, mark the element as scope root, walk the element's children.
ViewBinder(st, el, scope, arg) ==
    With(ResolvePath(st.obj, scope, arg),
         LAMBDA childScope :
             IF Falsy(childScope) THEN st
             ELSE With(AssignScopeId(
                           [st EXCEPT !.OBS = IF childScope.t = "object"
                                              THEN Observable(@, st.obj, childScope.o)
                                              ELSE @],
                           el, childScope),
                       LAMBDA st2 : WalkEach(st2, st2.kids[el], 1, childScope)))

\* The list binder: state, template, the closure variables
\* lastRenderedItems and renderedNodes, the first render(), which throws a
\* TypeError when state is null or undefined, and the '*' observer.  idle
\* holds the renderChunk closures of this binder that the host has yet to
\* run (requestIdleCallback), oldest first: their rows and index.
ListBinder(st, el, scope, arg) ==
    With(ResolvePath(st.obj, scope, arg),
         LAMBDA state :
    With([st EXCEPT !.lists = Append(@, [el |-> el, state |-> state,
                                         tmpl |-> FindTemplate(st, el),
                                         last |-> << >>, nodes |-> << >>,
                                         idle |-> << >>])],
         LAMBDA st1 :
             LET inst == Len(st.lists) + 1
                 fn   == RerenderFn(el, inst)
             IN  IF state \in {Undefined, Null} THEN [st1 EXCEPT !.threw = TRUE]
                 ELSE With(Render(st1, inst),
                           LAMBDA st2 :
                               IF HasObserve(st2.OBS, state)
                               THEN [st2 EXCEPT !.OBS = ObserveMap(@, state.o, Star, fn),
                                                !.eo  = RegisterObserver(@, el,
                                                            Closure(state.o, Star, fn))]
                               ELSE st2)))

\* The table binder: the listState, the columns of data-meta, the first
\* render(), which throws a TypeError when state is null or undefined, then
\* the click listener on the table and the '*' observer render (whose
\* unsubscribe closure is dropped).
TableBinder(st, el, scope, arg) ==
    With(ResolvePath(st.obj, scope, arg),
         LAMBDA state :
    With([st EXCEPT !.lists = Append(@, [el |-> el, state |-> state,
                                         cols |-> MetaCols(
                                             IF << el, "attr", DataMeta >> \in DOMAIN st.attr
                                             THEN st.attr[<< el, "attr", DataMeta >>]
                                             ELSE << >>),
                                         click |-> FALSE])],
         LAMBDA st1 :
             LET inst == Len(st.lists) + 1
             IN  IF state \in {Undefined, Null} THEN [st1 EXCEPT !.threw = TRUE]
                 ELSE With(TableRender(st1, inst),
                           LAMBDA st2 :
                               IF HasObserve(st2.OBS, state)
                               THEN [st2 EXCEPT !.lists[inst].click = TRUE,
                                                !.OBS = ObserveMap(@, state.o, Star,
                                                            TableRenderFn(el, inst))]
                               ELSE [st2 EXCEPT !.lists[inst].click = TRUE])))

TernaryWarning == "ternary binder requires format: condition:trueValue:falseValue"
StyleWarning == "style binder requires format: property:valuePath"

\* The ternary binder: unless arg has three parts, a warning and nothing
\* else; otherwise apply(), then $observe on the parent of the condition's
\* last key.
TernaryBinder(st, el, scope, arg) ==
    With(Split(arg, ":"),
         LAMBDA parts :
             IF Len(parts) /= 3 THEN [st EXCEPT !.warn = Append(@, TernaryWarning)]
             ELSE With(BatchUpdate([st EXCEPT !.ctr = @ + 1],
                                   TernaryCb(el, scope, parts, Len(st.queue) + 1)),
                       LAMBDA st1 : Subscribe(st1, el, scope, Trim(parts[1]),
                                              TernaryFn(el, st.ctr + 1, scope, parts))))

\* The style binder: unless arg has two parts, a warning and nothing else;
\* otherwise reactive(el, scope, valuePath, applyFn).
StyleBinder(st, el, scope, arg) ==
    With(Split(arg, ":"),
         LAMBDA parts :
             IF Len(parts) /= 2 THEN [st EXCEPT !.warn = Append(@, StyleWarning)]
             ELSE With(BatchUpdate([st EXCEPT !.ctr = @ + 1],
                                   StyleCb(el, parts[1],
                                           ResolvePath(st.obj, scope, parts[2]),
                                           Len(st.queue) + 1)),
                       LAMBDA st1 : Subscribe(st1, el, scope, parts[2],
                                              StyleFn(el, st.ctr + 1, parts[1]))))

\* The observed record of the attr and class binders:
\*   resolvePath(scope, path.split('.').slice(0, -1).join('.')) || scope
ParentOrScope(H, scope, path) ==
    With(ResolvePath(H, scope, ParentPath(path)),
         LAMBDA p0 : IF Falsy(p0) THEN scope ELSE p0)

\* The attr binder: const [attrName, path] = arg.split(':'), where path is
\* undefined for an arg of one part and path.split throws a TypeError; the
\* parts after the second are dropped.  Then apply(resolvePath(scope,
\* path)) and parent.$observe(key, apply).
AttrBinder(st, el, scope, arg) ==
    With(Split(arg, ":"),
         LAMBDA parts :
             IF Len(parts) < 2 THEN [st EXCEPT !.threw = TRUE]
             ELSE With(ParentOrScope(st.obj, scope, parts[2]),
                       LAMBDA parent :
                  With([st EXCEPT !.ctr = @ + 1,
                                  !.attr = Put(@, << el, "attr", parts[1] >>,
                                               ToStr(Coalesce(ResolvePath(st.obj, scope,
                                                                          parts[2]))))],
                       LAMBDA st1 :
                           IF HasObserve(st1.OBS, parent)
                           THEN [st1 EXCEPT
                                    !.OBS = ObserveMap(@, parent.o, LastKey(parts[2]),
                                                AttrFn(el, st.ctr + 1, parts[1])),
                                    !.eo  = RegisterObserver(@, el,
                                                Closure(parent.o,
                                                        ObserveKey(LastKey(parts[2])),
                                                        AttrFn(el, st.ctr + 1, parts[1])))]
                           ELSE st1)))

\* The class binder: const [cls, path] = arg.split(':'), as in the attr
\* binder; apply() toggles cls by the truth of resolvePath(scope, path).
ClassBinder(st, el, scope, arg) ==
    With(Split(arg, ":"),
         LAMBDA parts :
             IF Len(parts) < 2 THEN [st EXCEPT !.threw = TRUE]
             ELSE With(ParentOrScope(st.obj, scope, parts[2]),
                       LAMBDA parent :
                  With([st EXCEPT !.ctr = @ + 1,
                                  !.attr = ToggleClass(@, el, parts[1],
                                               ~Falsy(ResolvePath(st.obj, scope,
                                                                  parts[2])))],
                       LAMBDA st1 :
                           IF HasObserve(st1.OBS, parent)
                           THEN [st1 EXCEPT
                                    !.OBS = ObserveMap(@, parent.o, LastKey(parts[2]),
                                                ClassFn(el, st.ctr + 1, parts[1], scope,
                                                        parts[2])),
                                    !.eo  = RegisterObserver(@, el,
                                                Closure(parent.o,
                                                        ObserveKey(LastKey(parts[2])),
                                                        ClassFn(el, st.ctr + 1, parts[1],
                                                                scope, parts[2])))]
                           ELSE st1)))

\* fn({ el, scope, arg, stack }) for the handler registered under cmd.
CallBinder(st, cmd, el, scope, arg) ==
    CASE cmd = TextCmd  -> TextBinder(st, el, scope, arg)
      [] cmd = TapCmd   -> TapBinder(st, el, scope, arg)
      [] cmd = ViewCmd  -> ViewBinder(st, el, scope, arg)
      [] cmd = ValueCmd -> ValueBinder(st, el, scope, arg)
      [] cmd = MoneyCmd -> MoneyBinder(st, el, scope, arg)
      [] cmd = ListCmd  -> ListBinder(st, el, scope, arg)
      [] cmd = TableCmd -> TableBinder(st, el, scope, arg)
      [] cmd = TernaryCmd -> TernaryBinder(st, el, scope, arg)
      [] cmd = StyleCmd -> StyleBinder(st, el, scope, arg)
      [] cmd = AttrCmd  -> AttrBinder(st, el, scope, arg)
      [] cmd = ClassCmd -> ClassBinder(st, el, scope, arg)
      [] OTHER          -> st

\* The record of one binder call.
Dispatch(el, cmd, arg, scope) == [el |-> el, cmd |-> cmd, arg |-> arg, scope |-> scope]

\* The loop of applyBinds that gives up at the first command without a
\* handler.
RECURSIVE ApplyTokensStopAtUnknown(_, _, _, _, _)
ApplyTokensStopAtUnknown(st, el, scope, binds, i) ==
    IF st.threw \/ i > Len(binds) THEN st
    ELSE IF binds[i].cmd \notin Binders THEN st
    ELSE With(CallBinder([st EXCEPT !.disp = Append(@, Dispatch(el, binds[i].cmd,
                                                               binds[i].arg, scope))],
                         binds[i].cmd, el, scope, binds[i].arg),
              LAMBDA s : ApplyTokensStopAtUnknown(s, el, scope, binds, i + 1))

\* The loop of applyBinds: dispatch the tokens in order, skipping commands
\* without a handler; an exception of a handler ends it.
RECURSIVE ApplyTokens(_, _, _, _, _)
ApplyTokens(st, el, scope, binds, i) ==
    IF st.threw \/ i > Len(binds) THEN st
    ELSE IF binds[i].cmd \notin Binders THEN ApplyTokens(st, el, scope, binds, i + 1)
    ELSE With(CallBinder([st EXCEPT !.disp = Append(@, Dispatch(el, binds[i].cmd,
                                                               binds[i].arg, scope))],
                         binds[i].cmd, el, scope, binds[i].arg),
              LAMBDA s : ApplyTokens(s, el, scope, binds, i + 1))

\* applyBinds(el, scope, stack)
ApplyBinds(st, el, scope) ==
    With(ParseBinds(st.bind[el]), LAMBDA binds : ApplyTokens(st, el, scope, binds, 1))

\* [A-Za-z0-9_], over the characters that occur in attribute values.
IsWordChar(c) == c \notin WhiteSpace \cup {",", ":", ".", "*", "-", "'", "(", ")"}

\* /\bview\s*:/.test(binds)
HasViewToken(binds) ==
    \E i \in 1..Len(binds) :
        /\ i + 3 <= Len(binds)
        /\ SubSeq(binds, i, i + 3) = << "v", "i", "e", "w" >>
        /\ i = 1 \/ ~IsWordChar(binds[i - 1])
        /\ \E j \in (i + 4)..Len(binds) :
              /\ binds[j] = ":"
              /\ \A k \in (i + 4)..(j - 1) : binds[k] \in WhiteSpace

\* The loop of walk over the children: walk every child, except a child
\* whose data-bind holds a view token; an exception ends it.
RECURSIVE WalkChildren(_, _, _, _)
WalkChildren(st, kids, i, scope) ==
    IF st.threw \/ i > Len(kids) THEN st
    ELSE IF /\ kids[i] \in DOMAIN st.bind
            /\ st.bind[kids[i]] /= << >>
            /\ HasViewToken(st.bind[kids[i]])
    THEN WalkChildren(st, kids, i + 1, scope)
    ELSE With(Walk(st, kids[i], scope), LAMBDA s : WalkChildren(s, kids, i + 1, scope))

\* walk(el, scope, stack): the element's own tokens, then its children,
\* except children whose data-bind holds a view token.  (The stack argument
\* is only ever passed along and is left out.)
Walk(st, el, scope) ==
    With(IF el \in DOMAIN st.bind THEN ApplyBinds(st, el, scope) ELSE st,
         LAMBDA st1 : WalkChildren(st1, st1.kids[el], 1, scope))

----------------------------------------------------------------------------
(* Lifecycle: cleanupElement, and the list binder's renderFull.            *)

\* observers.forEach(cleanup => { try { cleanup() } catch ... }) for the
\* closures cs: each removes its listener and is recorded as invoked.
RECURSIVE RunCleanups(_, _, _)
RunCleanups(st, cs, i) ==
    IF i > Len(cs) THEN st
    ELSE With([st EXCEPT !.OBS[cs[i].o][cs[i].key] = SetDelete(@, cs[i].fn),
                         !.cleaned = Append(@, cs[i])],
              LAMBDA s : RunCleanups(s, cs, i + 1))

RECURSIVE CleanupElementKeepEntry(_, _)
RECURSIVE CleanupEachKeepEntry(_, _, _)
CleanupEachKeepEntry(st, es, i) ==
    IF i > Len(es) THEN st
    ELSE With(CleanupElementKeepEntry(st, es[i]),
              LAMBDA s : CleanupEachKeepEntry(s, es, i + 1))

\* cleanupElement without elementObservers.delete(element).
CleanupElementKeepEntry(st, element) ==
    With(IF element \in DOMAIN st.eo
         THEN RunCleanups(st, st.eo[element], 1)
         ELSE st,
         LAMBDA st1 : CleanupEachKeepEntry(st1, st1.kids[element], 1))

RECURSIVE CleanupElement(_, _)
RECURSIVE CleanupEach(_, _, _)
\* nodes.forEach(node => cleanupElement(node))
CleanupEach(st, es, i) ==
    IF i > Len(es) THEN st
    ELSE With(CleanupElement(st, es[i]), LAMBDA s : CleanupEach(s, es, i + 1))

\* cleanupElement(element): run and drop the element's cleanup closures,
\* then the same for its children.
CleanupElement(st, element) ==
    With(IF element \in DOMAIN st.eo
         THEN [RunCleanups(st, st.eo[element], 1) EXCEPT !.eo = Del(@, element)]
         ELSE st,
         LAMBDA st1 : CleanupEach(st1, st1.kids[element], 1))

\* The elements below e.
RECURSIVE Descendants(_, _)
Descendants(kids, e) ==
    Range(kids[e]) \cup UNION {Descendants(kids, c) : c \in Range(kids[e])}

\* The element is in the document: it is document.body or below it.
InDocument(kids, e) == e = Body \/ e \in Descendants(kids, Body)

\* The MutationObserver is observing and e is in the subtree it observes.
IsObserved(st, e) == st.started /\ InDocument(st.kids, e)

\* The names of the elements cloneNode creates, in order of creation.
MaxNodeNames == 400
NodeNames == [i \in 1..MaxNodeNames |-> "n" \o ToString(i)]

\* template.cloneNode(true): a new element with the template's data-bind
\* attribute and text.
CloneNode(st, tmpl) ==
    LET node == NodeNames[st.nodes + 1]
    IN  [st EXCEPT !.nodes = @ + 1,
                   !.kids  = Put(@, node, << >>),
                   !.text  = Put(@, node, tmpl.text),
                   !.bind  = IF tmpl.bind = << >> THEN @ ELSE Put(@, node, tmpl.bind[1])]

\* rows.forEach(row => { clone, bind, push }) of renderFull for the list
\* binder inst; an exception of a binder ends it.  acc holds the nodes
\* pushed so far.
RECURSIVE RenderRows(_, _, _, _, _)
RenderRows(st, inst, rows, i, acc) ==
    IF st.threw \/ i > Len(rows) THEN [st EXCEPT !.lists[inst].nodes = acc]
    ELSE LET node == NodeNames[st.nodes + 1]
         IN  With(Walk([CloneNode(st, st.lists[inst].tmpl)
                           \* (row && row.$set) ? row : observable(row)
                           EXCEPT !.OBS = Observable(@, st.obj, rows[i])],
                       node, Ref(rows[i])),
                  LAMBDA st3 :
                      RenderRows(st3, inst, rows, i + 1,
                                 IF st3.threw THEN acc ELSE Append(acc, node)))

\* renderFull(rows) and lastRenderedItems = rows.slice(): clean up the
\* rendered nodes, empty the host (its children are removed from the
\* document), clone and bind one node per row, append the nodes.
RenderFull(st, inst, rows) ==
    LET I == st.lists[inst]
    IN  With(CleanupEach(st, I.nodes, 1),
             LAMBDA st1 :
        With(RenderRows(IF IsObserved(st1, I.el)
                        THEN [st1 EXCEPT !.muts = @ \o st1.kids[I.el],
                                         !.gone = @ \cup Descendants(st1.kids, I.el),
                                         !.kids[I.el] = << >>]
                        ELSE [st1 EXCEPT !.kids[I.el] = << >>],
                        inst, rows, 1, << >>),
             LAMBDA st3 :
                 IF st3.threw THEN st3
                 ELSE [st3 EXCEPT !.kids[I.el] = st3.lists[inst].nodes,
                                  !.lists[inst].last = rows]))

\* const chunkSize = 20, and the row count above which render() renders
\* incrementally.
chunkSize == 20
ChunkThreshold == 100

Min(a, b) == IF a < b THEN a ELSE b

\* for (let i = index; i < endIndex; i++) { clone, bind, push } of
\* renderChunk: the rows i..last (counted from 1); an exception of a binder
\* ends it before the push.
RECURSIVE CloneRows(_, _, _, _, _)
CloneRows(st, inst, rows, i, endIndex) ==
    IF st.threw \/ i > endIndex THEN st
    ELSE LET node == NodeNames[st.nodes + 1]
         IN  With(Walk([CloneNode(st, st.lists[inst].tmpl)
                           EXCEPT !.OBS = Observable(@, st.obj, rows[i])],
                       node, Ref(rows[i])),
                  LAMBDA st3 :
                      CloneRows(IF st3.threw THEN st3
                                ELSE [st3 EXCEPT !.lists[inst].nodes = Append(@, node)],
                                inst, rows, i + 1, endIndex))

\* if (index === 0) { renderedNodes.forEach(cleanupElement);
\* el.innerHTML = ''; renderedNodes = [] }: it runs after the loop, so the
\* nodes of the first chunk are among those cleaned up and dropped.
ClearForFirstChunk(st, inst) ==
    LET el == st.lists[inst].el
    IN  With(CleanupEach(st, st.lists[inst].nodes, 1),
             LAMBDA st1 :
                 IF IsObserved(st1, el)
                 THEN [st1 EXCEPT !.muts = @ \o st1.kids[el],
                                  !.gone = @ \cup Descendants(st1.kids, el),
                                  !.kids[el] = << >>,
                                  !.lists[inst].nodes = << >>]
                 ELSE [st1 EXCEPT !.kids[el] = << >>,
                                  !.lists[inst].nodes = << >>])

\* renderChunk() for the closure c = [rows, index]: clone and bind the
\* rows index..endIndex-1, the first chunk clears, append the fragment,
\* and schedule the next chunk while rows remain.
RenderChunk(st, inst, c) ==
    LET endIndex == Min(c.index + chunkSize, Len(c.rows))
        pushed   == Len(st.lists[inst].nodes)
    IN  With(CloneRows(st, inst, c.rows, c.index + 1, endIndex),
             LAMBDA st1 :
                 IF st1.threw THEN st1
                 ELSE With(SubSeq(st1.lists[inst].nodes, pushed + 1,
                                  Len(st1.lists[inst].nodes)),
                           LAMBDA frag :
                      With(IF c.index = 0 THEN ClearForFirstChunk(st1, inst) ELSE st1,
                           LAMBDA st2 :
                               [st2 EXCEPT
                                  !.kids[st2.lists[inst].el] = @ \o frag,
                                  !.lists[inst].idle =
                                      IF endIndex < Len(c.rows)
                                      THEN Append(@, [rows |-> c.rows, index |-> endIndex])
                                      ELSE @])))

\* renderIncremental(rows) and lastRenderedItems = rows.slice(): the first
\* chunk runs at once.
RenderIncremental(st, inst, rows) ==
    With(RenderChunk(st, inst, [rows |-> rows, index |-> 0]),
         LAMBDA st1 : IF st1.threw THEN st1 ELSE [st1 EXCEPT !.lists[inst].last = rows])

----------------------------------------------------------------------------
(* Update scheduler: the deferred flush.                                   *)

\* fn() for one queued callback, inside try/catch.  The log records the
\* callback and whether console.warn reported an error of it.
RunCallback(st, cb) ==
    LET threw == cb.k = "user" /\ cb.name \in ThrowingCbs
        st1   == [st EXCEPT !.log = Append(@, [cb |-> cb, threw |-> threw])]
        names == IF cb.k = "user" THEN Reschedules(cb.name) ELSE << >>
        \* a user callback that calls batchUpdate for other callbacks
        Resched[i \in 0..Len(names)] ==
            IF i = 0 THEN st1 ELSE BatchUpdate(Resched[i - 1], UserCb(names[i]))
    IN  CASE cb.k = "write" ->
               \* () => { el.textContent = v ?? '' }
               [st1 EXCEPT !.text = Put(@, cb.el, ToStr(Coalesce(cb.v)))]
          [] cb.k = "style" ->
               [st1 EXCEPT !.attr = Put(@, << cb.el, "style", cb.v.styleProperty >>,
                                        IF Falsy(cb.v.v) THEN << >> ELSE ToStr(cb.v.v))]
          [] cb.k = "ternary" ->
               \* el.textContent = !!resolvePath(scope, conditionPath.trim())
               \*                      ? trueValue : falseValue
               [st1 EXCEPT !.text =
                    Put(@, cb.el,
                        IF ~Falsy(ResolvePath(st.obj, cb.v.scope, Trim(cb.v.parts[1])))
                        THEN cb.v.parts[2] ELSE cb.v.parts[3])]
          [] cb.k = "render" ->
               \* rows.length > 100 ? renderIncremental(rows)
               \*                   : renderFull(rows)
               With(IF Len(cb.v.s) > ChunkThreshold
                    THEN RenderIncremental(st, cb.inst, cb.v.s)
                    ELSE RenderFull(st, cb.inst, cb.v.s),
                    LAMBDA res :
                        [res EXCEPT !.log = Append(@, [cb |-> cb, threw |-> res.threw]),
                                    !.threw = FALSE])
          [] OTHER -> Resched[Len(names)]

\* forEach without the try/catch: the first exception ends the iteration.
RECURSIVE RunQueueAbortOnThrow(_, _)
RunQueueAbortOnThrow(st, i) ==
    IF i > Len(st.queue) \/ (st.log /= << >> /\ st.log[Len(st.log)].threw) THEN st
    ELSE With(RunCallback(st, st.queue[i]), LAMBDA s : RunQueueAbortOnThrow(s, i + 1))

\* fn() for the members lo..hi of the queue, in order.
RECURSIVE RunSpan(_, _, _)
RunSpan(st, lo, hi) ==
    IF lo = hi THEN RunCallback(st, st.queue[lo])
    ELSE With(RunSpan(st, lo, (lo + hi) \div 2),
              LAMBDA s : RunSpan(s, ((lo + hi) \div 2) + 1, hi))

\* forEach over a copy of the queue: the members added while it runs are
\* not visited.
RunQueueSnapshot(st, i) ==
    IF i > Len(st.queue) THEN st ELSE RunSpan(st, i, Len(st.queue))

\* updateQueue.forEach(...): visits the members in insertion order,
\* including those added while it runs.
RECURSIVE RunQueue(_, _)
RunQueue(st, i) ==
    IF i > Len(st.queue) THEN st
    ELSE With(RunSpan(st, i, Len(st.queue)),
              LAMBDA s : RunQueue(s, Len(st.queue) + 1))

\* The flush without updateQueue.clear().
FlushKeepQueue ==
    /\ scheduledFlushes > 0
    /\ \E st \in {RunQueue([Handler EXCEPT !.sched = @ - 1], 1)} :
          /\ Commit([st EXCEPT !.armed = FALSE])
          /\ ran' = st.log
          /\ cleaned' = st.cleaned
          /\ removedElems' = st.gone
          /\ dispatched' = st.disp
          /\ last' = Op("flush", "", << >>, NoFn, Undefined, Undefined, FALSE)

\* The callback handed to requestAnimationFrame: run the queue, clear it,
\* reset the flag.  The host runs it once per arming.
Flush ==
    /\ scheduledFlushes > 0
    /\ \E st \in {RunQueue([Handler EXCEPT !.sched = @ - 1], 1)} :
          /\ Commit([st EXCEPT !.queue = << >>, !.armed = FALSE])
          /\ ran' = st.log
          /\ cleaned' = st.cleaned
          /\ removedElems' = st.gone
          /\ dispatched' = st.disp
          /\ last' = Op("flush", "", << >>, NoFn, Undefined, Undefined, FALSE)

----------------------------------------------------------------------------
(* The public operations bind and unbind, and the MutationObserver.        *)

\* installTapDelegation(root): once per root, add the delegated click
\* listener.
InstallTapDelegationNoGuard(st, root) ==
    [st EXCEPT !.tapi = @ \cup {root},
               !.clk  = Put(@, root, IF root \in DOMAIN @ THEN @[root] + 1 ELSE 1)]

InstallTapDelegation(st, root) ==
    IF root \in st.tapi THEN st
    ELSE [st EXCEPT !.tapi = @ \cup {root},
                    !.clk  = Put(@, root, IF root \in DOMAIN @ THEN @[root] + 1 ELSE 1)]

\* The end of an operation on the page: the program's state and the record
\* of what the operation did.
Finish(st, op) ==
    \E s \in {st} :
        /\ Commit(s)
        /\ cleaned' = s.cleaned
        /\ removedElems' = s.gone
        /\ dispatched' = s.disp
        /\ last' = op

\* bind that upgrades the record and marks the root before it tests that
\* the root was found.
BindUpgradeFirst(host, o) ==
    \E st0 \in {[Handler EXCEPT !.OBS = Observable(@, obj, o)]} :
        IF host = NoElem
        THEN Finish(AssignScopeId(st0, host, Ref(o)),
                    Op("bind", o, << >>, NoFn, ElemVal(host), Undefined, TRUE))
        ELSE \E st2 \in {Walk(IF host \in DOMAIN st0.sid THEN st0
                               ELSE AssignScopeId(st0, host, Ref(o)),
                               host, Ref(o))} :
                 Finish(IF st2.threw THEN st2
                        ELSE [InstallTapDelegation(st2, host) EXCEPT !.started = TRUE],
                        Op("bind", o, << >>, NoFn, ElemVal(host), Undefined, st2.threw))

\* px64.bind(root, scope) for a root that resolves to the element host
\* (NoElem: to nothing) and the record o: throw if the root is missing;
\* observable, assignScopeId unless the host has an id, bindTree,
\* installTapDelegation, startDOMObserver.  An exception of a binder leaves
\* bind at that point.
Bind(host, o) ==
    IF host = NoElem
    THEN Finish(Handler, Op("bind", o, << >>, NoFn, ElemVal(host), Undefined, TRUE))
    ELSE \E st0 \in {[Handler EXCEPT !.OBS = Observable(@, obj, o)]} :
         \E st2 \in {Walk(IF host \in DOMAIN st0.sid THEN st0
                           ELSE AssignScopeId(st0, host, Ref(o)),
                           host, Ref(o))} :
             Finish(IF st2.threw THEN st2
                    ELSE [InstallTapDelegation(st2, host) EXCEPT !.started = TRUE],
                    Op("bind", o, << >>, NoFn, ElemVal(host), Undefined, st2.threw))

\* host.removeAttribute('data-bind'); removeAttribute('data-tap') for the
\* elements es.
StripAttributes(st, es) ==
    [st EXCEPT !.bind = [e \in DOMAIN @ \ es |-> @[e]],
               !.tap  = [e \in DOMAIN @ \ es |-> @[e]]]

\* px64.unbind(root) for a root that resolves to the element host:
\* cleanupElement, remove the host's data-scope-id, remove data-bind and
\* data-tap from the host and from its descendants that have data-bind.
Unbind(host) ==
    IF host = NoElem
    THEN Finish(Handler, Op("unbind", "", << >>, NoFn, ElemVal(host), Undefined, TRUE))
    ELSE \E st1 \in {CleanupElement(Handler, host)} :
             Finish(StripAttributes(
                        [st1 EXCEPT !.sid = Del(@, host)],
                        {host} \cup (Descendants(st1.kids, host) \cap DOMAIN st1.bind)),
                    Op("unbind", "", << >>, NoFn, ElemVal(host), Undefined, FALSE))

\* The parent of an element that has one.
ParentNode(kids, e) == CHOOSE p \in DOMAIN kids : e \in Range(kids[p])

\* Application code removes the element e from its parent (e.remove()); the
\* MutationObserver, if it observes the parent, is told later.
Remove(e) ==
    \E p \in {ParentNode(childNodes, e)} :
        Finish(IF IsObserved(Handler, p)
               THEN [Handler EXCEPT !.kids[p] = SetDelete(@, e),
                                    !.muts = Append(@, e),
                                    !.gone = @ \cup {e} \cup Descendants(childNodes, e)]
               ELSE [Handler EXCEPT !.kids[p] = SetDelete(@, e)],
               Op("remove", "", << >>, NoFn, ElemVal(e), Undefined, FALSE))

\* The MutationObserver's callback with the records queued so far:
\* cleanupElement for every removed node.
Detect ==
    /\ mutations /= << >>
    /\ \E st \in {CleanupEach(Handler, mutations, 1)} :
          Finish([st EXCEPT !.muts = << >>, !.gone = {}],
                 Op("detect", "", << >>, NoFn, Undefined, Undefined, FALSE))

\* The outermost of e and its ancestors that is in M, or NoElem.
RECURSIVE Outermost(_, _, _)
Outermost(kids, e, M) ==
    IF e = NoElem THEN NoElem
    ELSE LET up == IF \E p \in DOMAIN kids : e \in Range(kids[p])
                   THEN Outermost(kids, ParentNode(kids, e), M)
                   ELSE NoElem
         IN  IF up /= NoElem THEN up ELSE IF e \in M THEN e ELSE NoElem

\* el.closest(selector), M being the elements that match the selector: the
\* nearest of e and its ancestors that matches, or NoElem.
RECURSIVE Closest(_, _, _)
Closest(kids, e, M) ==
    IF e = NoElem \/ e \in M THEN e
    ELSE IF \E p \in DOMAIN kids : e \in Range(kids[p])
    THEN Closest(kids, ParentNode(kids, e), M)
    ELSE NoElem

\* obj.$set(prop, value) in the course of a handler.
SetIn(st, o, prop, value) ==
    With(GetProp(st.obj, Ref(o), prop),
         LAMBDA old :
             IF old = value THEN st
             ELSE Notify([st EXCEPT !.obj[o] = Put(@, prop, value)], st.OBS, o, prop,
                         value, old, value))

\* The methods of the listState o.
\*   setItems(arr): $set('items', arr.slice()); $set('total', arr.length)
\* id names the new array.
SetItems(st, o, arr, id) ==
    With(SetIn(st, o, ItemsKey, Arr(id, arr)),
         LAMBDA s : IF s.threw THEN s ELSE SetIn(s, o, TotalKey, Num(Len(arr))))

\*   nextPage(): $set('page', Math.min(Math.ceil(total / pageSize), page + 1))
NextPage(st, o) ==
    LET total    == st.obj[o][TotalKey].n
        pageSize == st.obj[o][PageSizeKey].n
        page     == st.obj[o][PageKey].n
        pages    == (total + pageSize - 1) \div pageSize
    IN  SetIn(st, o, PageKey, Num(IF pages < page + 1 THEN pages ELSE page + 1))

\*   prevPage(): $set('page', Math.max(1, page - 1))
PrevPage(st, o) ==
    LET page == st.obj[o][PageKey].n
    IN  SetIn(st, o, PageKey, Num(IF page - 1 > 1 THEN page - 1 ELSE 1))

\*   sortBy(k, dir): $set('sortKey', k); if (dir) $set('sortDir', dir)
SortBy(st, o, k, dir) ==
    With(SetIn(st, o, SortKeyKey, Str(k)),
         LAMBDA s : IF s.threw \/ dir = << >> THEN s ELSE SetIn(s, o, SortDirKey, Str(dir)))

\* action.match(/^(\w+)\('([^']+)'\)$/): << functionName, parameter >>, or
\* << >> when the action is not of that form.
FunctionCallMatch(action) ==
    LET n == Len(action)
        \* the first character that is not a word character
        p == IF \E i \in 1..n : ~IsWordChar(action[i])
             THEN CHOOSE i \in 1..n : /\ ~IsWordChar(action[i])
                                      /\ \A j \in 1..(i - 1) : IsWordChar(action[j])
             ELSE 0
    IN  IF /\ p > 1
           /\ p + 4 <= n
           /\ action[p] = "(" /\ action[p + 1] = "'"
           /\ action[n - 1] = "'" /\ action[n] = ")"
           /\ \A j \in (p + 2)..(n - 2) : action[j] /= "'"
        THEN << SubSeq(action, 1, p - 1), SubSeq(action, p + 2, n - 2) >>
        ELSE << >>

\* The functions of the pages' scopes:
\*   go() {}
\*   setStatus(status) { return function applyStatus() { this.$set('status', status) } }
FnResult(name) == IF name = "setStatus" THEN Fn("applyStatus") ELSE Undefined
StatusKey == << "s", "t", "a", "t", "u", "s" >>
FnEffect(st, name, this, status) ==
    IF name = "applyStatus" THEN SetIn(st, this.o, StatusKey, Str(status)) ELSE st

\* The records of fn.call(scope, { el: target, scope, event }) and of
\* fn.call(scope, parameter).
EventCall(fn, scope, target) ==
    [fn |-> fn, this |-> scope, el |-> target, scope |-> scope, param |-> Undefined]
ParamCall(fn, scope, parameter) ==
    [fn |-> fn, this |-> scope, el |-> NoElem, scope |-> Undefined, param |-> Str(parameter)]

\* The action without the call of the function that the call form's
\* function returns.
InvokeActionNoSecondCall(st, scope, target, action) ==
    With(FunctionCallMatch(action),
         LAMBDA m :
             With(ResolvePath(st.obj, scope, IF m /= << >> THEN m[1] ELSE action),
                  LAMBDA fn :
                      IF fn.t /= "function" THEN st
                      ELSE IF m /= << >>
                      THEN [st EXCEPT !.fired = Append(@, ParamCall(fn.o, scope, m[2]))]
                      ELSE [st EXCEPT !.fired = Append(@, EventCall(fn.o, scope, target))]))

\* The action of a [data-tap] element, on its owning scope: the call form
\* name('parameter') calls the function and then the function it returns;
\* a plain path calls the function at the path.
InvokeAction(st, scope, target, action) ==
    With(FunctionCallMatch(action),
         LAMBDA m :
             IF m /= << >>
             THEN With(ResolvePath(st.obj, scope, m[1]),
                       LAMBDA fn :
                           IF fn.t /= "function" THEN st
                           ELSE IF FnResult(fn.o).t = "function"
                           THEN FnEffect([st EXCEPT !.fired =
                                               @ \o << ParamCall(fn.o, scope, m[2]),
                                                       EventCall(FnResult(fn.o).o, scope,
                                                                 target) >>],
                                         FnResult(fn.o).o, scope, m[2])
                           ELSE [st EXCEPT !.fired = Append(@, ParamCall(fn.o, scope, m[2]))])
             ELSE With(ResolvePath(st.obj, scope, action),
                       LAMBDA fn :
                           IF fn.t = "function"
                           THEN [st EXCEPT !.fired = Append(@, EventCall(fn.o, scope, target))]
                           ELSE st))

\* The delegated click listener with the scope of the outermost
\* [data-scope-id] above the target.
TapListenerOutermostScope(st, e) ==
    With(Closest(st.kids, e, DOMAIN st.tap),
         LAMBDA target :
    With(Outermost(st.kids, target, DOMAIN st.sid),
         LAMBDA holder :
             LET scopeId == IF holder = NoElem THEN << >> ELSE st.sid[holder]
                 scope   == IF scopeId \in DOMAIN st.reg THEN st.reg[scopeId] ELSE Undefined
             IN  IF target = NoElem \/ Falsy(scope) THEN st
                 ELSE InvokeAction(st, scope, target, st.tap[target])))

\* The delegated click listener, for a click whose event target is e: the
\* closest [data-tap]; the scope registered under the closest
\* [data-scope-id]; the action, invoked on that scope.
TapListener(st, e) ==
    With(Closest(st.kids, e, DOMAIN st.tap),
         LAMBDA target :
    With(Closest(st.kids, target, DOMAIN st.sid),
         LAMBDA holder :
             LET scopeId == IF holder = NoElem THEN << >> ELSE st.sid[holder]
                 scope   == IF scopeId \in DOMAIN st.reg THEN st.reg[scopeId] ELSE Undefined
             IN  IF target = NoElem \/ Falsy(scope) THEN st
                 ELSE InvokeAction(st, scope, target, st.tap[target])))

\* The n click listeners of one element, for a click with event target e.
RECURSIVE TapListeners(_, _, _)
TapListeners(st, e, n) ==
    IF n = 0 THEN st ELSE With(TapListener(st, e), LAMBDA s : TapListeners(s, e, n - 1))

\* e and its ancestors, innermost first: the path a click on e bubbles along.
RECURSIVE PathUp(_, _)
PathUp(kids, e) ==
    IF \E p \in DOMAIN kids : e \in Range(kids[p])
    THEN << e >> \o PathUp(kids, ParentNode(kids, e))
    ELSE << e >>

\* The click on e bubbles along path: at every element, its click listeners
\* run.
RECURSIVE Bubble(_, _, _, _)
Bubble(st, e, path, i) ==
    IF i > Len(path) THEN st
    ELSE With(TapListeners(st, e, IF path[i] \in DOMAIN st.clk THEN st.clk[path[i]] ELSE 0),
              LAMBDA s : Bubble(s, e, path, i + 1))

\* The user clicks the element e: the click listeners of e and of its
\* ancestors run.
Click(e) ==
    \E st \in {Bubble(Handler, e, PathUp(childNodes, e), 1)} :
        /\ Finish(st, Op("click", "", << >>, NoFn, ElemVal(e), Undefined, FALSE))
        /\ fired' = st.fired

\* One 'input' listener l of the value binder:
\*   if (parent.$set) parent.$set(key, el.value); else parent[key] = el.value
\* An exception of a listener is reported by the host and ends that listener
\* only.
InputListener(st, l) ==
    [(IF HasObserve(st.OBS, l.parent)
      THEN SetIn(st, l.parent.o, l.key, Str(st.val[l.el]))
      ELSE [st EXCEPT !.obj[l.parent.o] = Put(@, l.key, Str(st.val[l.el]))])
     EXCEPT !.threw = FALSE]

\* The 'input' listeners ls run in the order they were added.
RECURSIVE InputListeners(_, _, _)
InputListeners(st, ls, i) ==
    IF i > Len(ls) THEN st
    ELSE With(InputListener(st, ls[i]), LAMBDA s : InputListeners(s, ls, i + 1))

\* The user types text into the element el: el.value is the text, and the
\* element's 'input' listeners run.
Input(el, text) ==
    \E st \in {InputListeners([Handler EXCEPT !.val = Put(@, el, text)],
                               SelectSeq(inputListeners, LAMBDA l : l.el = el), 1)} :
        /\ Finish(st, Op("input", "", << >>, NoFn, ElemVal(el), Str(text), FALSE))
        /\ calls' = st.log

----------------------------------------------------------------------------
(* StoreSpec: one observable record, driven through $observe, the closures *)
(* $observe returned, and $set.  StoreInit is the record {count: 5} after  *)
(* observable().                                                           *)

StoreInit ==
    /\ obj = [o \in Objs |-> [p \in Props |-> IF p = CountKey THEN Num(5) ELSE Undefined]]
    /\ OBS = [o \in Objs |-> [p \in Props |-> << >>]]
    /\ calls = << >>
    /\ unsubCalled = {}
    /\ updateQueue = << >>
    /\ isUpdateScheduled = FALSE
    /\ scheduledFlushes = 0
    /\ schedCount = [c \in UserCbNames |-> 0]
    /\ ran = << >>
    /\ textContent = [e \in {} |-> << >>]
    /\ dataBind = [e \in {} |-> << >>]
    /\ scopeIdAttr = [e \in {} |-> << >>]
    /\ scopeRegistry = [i \in {} |-> ""]
    /\ scopeCounter = 0
    /\ elementObservers = [e \in {} |-> << >>]
    /\ tapInstalled = {}
    /\ observerStarted = FALSE
    /\ fnCounter = 0
    /\ childNodes = [e \in {} |-> << >>]
    /\ dataTap = [e \in {} |-> << >>]
    /\ elAttr = [a \in {} |-> << >>]
    /\ warnings = << >>
    /\ elValue = [e \in {} |-> << >>]
    /\ clickListeners = [e \in {} |-> 0]
    /\ inputListeners = << >>
    /\ mutations = << >>
    /\ listBinders = << >>
    /\ nodeCounter = 0
    /\ cleaned = << >>
    /\ removedElems = {}
    /\ dispatched = << >>
    /\ fired = << >>
    /\ last = NoOp

\* Application code calls S.$observe(prop, fn) with one of the functions F.
ObserveAction(F) ==
    \E o \in Objs, prop \in ObserveArgs, fn \in F :
        /\ Observe(o, prop, fn)
        /\ calls' = << >>
        /\ UNCHANGED << obj, unsubCalled, schedVars, domVars >>

\* Application code calls, for the first time, the closure of a listener
\* that is registered; if hold, it keeps the closure afterwards.
UnsubscribeAction(F, hold) ==
    \E o \in Objs, key \in Props, fn \in F :
        /\ fn \in Range(OBS[o][key])
        /\ Unsubscribe(o, key, fn)
        /\ unsubCalled' = IF hold THEN unsubCalled \cup {Closure(o, key, fn)}
                                   ELSE unsubCalled
        /\ calls' = << >>
        /\ last' = Op("unsubscribe", o, key, fn, Undefined, Undefined, FALSE)
        /\ UNCHANGED << obj, schedVars, domVars >>

\* Application code calls S.$set(prop, value).
SetAction ==
    \E o \in Objs, prop \in Props, value \in StoreVals :
        /\ Set(o, prop, value)
        /\ UNCHANGED << unsubCalled, schedCount, ran, cleaned, removedElems, dispatched, fired >>

StoreObserve == ObserveAction(UserFns)

StoreUnsubscribe == UnsubscribeAction(UserFns, FALSE)

StoreSet == SetAction

StoreNext ==
    \/ StoreObserve
    \/ StoreUnsubscribe
    \/ StoreSet

StoreSpec == StoreInit /\ [][StoreNext]_vars

----------------------------------------------------------------------------
(* ClosureSpec: the store with an application that keeps unsubscribe       *)
(* closures it has called and calls them again.                            *)

\* The number of already-called closures the application keeps a reference to.
MaxHeld == 2

\* The listeners of this application.
HeldFns == {UserFn("f1"), UserFn("f2")}

ClosureObserve == ObserveAction(HeldFns)

\* A closure is called for the first time and dropped.
ClosureUnsubscribe == UnsubscribeAction(HeldFns, FALSE)

\* A closure is called for the first time and kept.
ClosureUnsubscribeHold ==
    /\ Cardinality(unsubCalled) < MaxHeld
    /\ UnsubscribeAction(HeldFns, TRUE)

\* A closure that has been called before is called again.
ClosureUnsubscribeAgain ==
    \E c \in unsubCalled :
        /\ Unsubscribe(c.o, c.key, c.fn)
        /\ calls' = << >>
        /\ last' = Op("unsubscribeAgain", c.o, c.key, c.fn, Undefined, Undefined, FALSE)
        /\ UNCHANGED << obj, unsubCalled, schedVars, domVars >>

ClosureSet == SetAction

ClosureNext ==
    \/ ClosureObserve
    \/ ClosureUnsubscribe
    \/ ClosureUnsubscribeHold
    \/ ClosureUnsubscribeAgain
    \/ ClosureSet

ClosureSpec == StoreInit /\ [][ClosureNext]_vars

----------------------------------------------------------------------------
(* Claims about the observable store (StoreSpec).                          *)

\* The invocations of fn in the last $set: as listener of the property
\* (kind "key") or as wildcard listener (kind "any").
CallsOf(fn, kind) == {i \in 1..Len(calls) : calls[i].fn = fn /\ calls[i].kind = kind}

\* A listener at a position before i in the Set q throws.
ThrowsBefore(q, i) == \E j \in 1..(i - 1) : q[j].k = "user" /\ q[j].name \in ThrowingFns
ThrowsIn(q) == ThrowsBefore(q, Len(q) + 1)

ChangingSet == last.op = "set" /\ last.value /= last.old
NoOpSet == last.op = "set" /\ last.value = last.old

\* C1 as stated: a changing set(p, v) stores v and invokes every listener
\* registered under p exactly once with (v, old).
C1_AsStated ==
    ChangingSet =>
        /\ obj[last.o][last.key] = last.value
        /\ \A fn \in Range(OBS[last.o][last.key]) :
              /\ Cardinality(CallsOf(fn, "key")) = 1
              /\ \A i \in CallsOf(fn, "key") : calls[i].args = << last.value, last.old >>

\* C1 (amended): a changing set(p, v) stores v and invokes the listeners
\* registered under p in registration order with (v, old): each exactly once,
\* except that the listeners after one that throws are not invoked at all.
C1_SetInvokesKeyListeners ==
    ChangingSet =>
        LET q == OBS[last.o][last.key] IN
        /\ obj[last.o][last.key] = last.value
        /\ \A i \in 1..Len(q) :
              /\ Cardinality(CallsOf(q[i], "key")) = IF ThrowsBefore(q, i) THEN 0 ELSE 1
              /\ \A c \in CallsOf(q[i], "key") :
                    calls[c].args = << last.value, last.old >>
        /\ \A i, j \in 1..Len(q) :
              i < j => \A c \in CallsOf(q[i], "key"), d \in CallsOf(q[j], "key") : c < d
        /\ last.threw = ThrowsIn(q) \/ (~ThrowsIn(q) /\ last.threw = ThrowsIn(OBS[last.o][Star]))

\* C1 witness: a changing set of a property with two or more listeners,
\* none of which throws, all of them invoked.
C1_Witness ==
    /\ ChangingSet
    /\ Len(OBS[last.o][last.key]) >= 2
    /\ ~ThrowsIn(OBS[last.o][last.key])
    /\ Len(calls) >= 2

\* C2: set(p, v) with v === S[p] invokes no listener and changes neither the
\* fields nor the listener sets (nor schedules anything).
C2_EqualSetIsNoOp ==
    [][ (last'.op = "set" /\ last'.value = last'.old)
          => /\ calls' = << >>
             /\ obj' = obj
             /\ OBS' = OBS
             /\ updateQueue' = updateQueue
             /\ isUpdateScheduled' = isUpdateScheduled
             /\ ~last'.threw ]_vars

\* C2 witness: an equal-value set on a property that has a listener of its
\* own and a wildcard listener.
C2_Witness ==
    /\ NoOpSet
    /\ last.key = CountKey
    /\ OBS[last.o][CountKey] /= << >>
    /\ OBS[last.o][Star] /= << >>

\* C3: on a changing set the field holds the new value when any listener is
\* invoked, no wildcard invocation precedes an invocation of a listener of
\* the property, and the wildcard listeners start only when all listeners of
\* the property have been invoked.
C3_StoreThenKeyThenAny ==
    ChangingSet =>
        /\ \A i \in 1..Len(calls) : calls[i].seen = last.value
        /\ \A i, j \in 1..Len(calls) :
              (calls[i].kind = "any" /\ calls[j].kind = "key") => j < i
        /\ (\E i \in 1..Len(calls) : calls[i].kind = "any")
              => \A fn \in Range(OBS[last.o][last.key]) : CallsOf(fn, "key") /= {}

\* C3 witness: a changing set that invoked a listener of the property and
\* then a wildcard listener.
C3_Witness ==
    /\ ChangingSet
    /\ last.key = CountKey
    /\ \E i, j \in 1..Len(calls) : calls[i].kind = "key" /\ calls[j].kind = "any"

\* C4 as stated: a wildcard listener is invoked exactly once per set call,
\* for any property and value, with (p, v, old).
C4_AsStated ==
    last.op = "set" =>
        \A fn \in Range(OBS[last.o][Star]) :
            /\ Cardinality(CallsOf(fn, "any")) = 1
            /\ \A i \in CallsOf(fn, "any") :
                  calls[i].args = << Str(last.key), last.value, last.old >>

\* C4 (amended): a wildcard listener is invoked exactly once, with
\* (p, v, old), per set call that changes the value, unless a listener
\* invoked before it in that notification throws; a set call with
\* v === current does not invoke it.
C4_WildcardOncePerChange ==
    last.op = "set" =>
        LET any == OBS[last.o][Star] IN
        \A i \in 1..Len(any) :
            /\ Cardinality(CallsOf(any[i], "any")) =
                  IF /\ last.value /= last.old
                     /\ ~ThrowsIn(OBS[last.o][last.key])
                     /\ ~ThrowsBefore(any, i)
                  THEN 1 ELSE 0
            /\ \A c \in CallsOf(any[i], "any") :
                  calls[c].args = << Str(last.key), last.value, last.old >>

\* C4 witness: a changing set of a property with its own listener that
\* reached two wildcard listeners.
C4_Witness ==
    /\ ChangingSet
    /\ last.key = CountKey
    /\ OBS[last.o][CountKey] /= << >>
    /\ Cardinality({i \in 1..Len(calls) : calls[i].kind = "any"}) >= 2

\* fn is invoked under key by the last set.
InvokedUnder(fn, key) ==
    /\ last.op = "set"
    /\ \/ last.key = key /\ CallsOf(fn, "key") /= {}
       \/ key = Star /\ CallsOf(fn, "any") /= {}

IsUnsubscribe(op) == op \in {"unsubscribe", "unsubscribeAgain"}

\* Every registration except that of fn under key is the same in OBS and P.
OthersKept(O, P, o, key, fn) ==
    \A o2 \in Objs, k \in Props :
        P[o2][k] = IF o2 = o /\ k = key THEN SetDelete(O[o2][k], fn) ELSE O[o2][k]

\* C5 as stated: once an unsubscribe closure has been called, no later set
\* invokes fn under that key; calling it again is a no-op; it removes no
\* other listener.
C5_AsStated ==
    [][ /\ \A c \in unsubCalled' : ~InvokedUnder(c.fn, c.key)'
        /\ last'.op = "unsubscribeAgain" => OBS' = OBS
        /\ IsUnsubscribe(last'.op) => OthersKept(OBS, OBS', last'.o, last'.key, last'.fn)
      ]_vars

\* C5 (amended): calling the unsubscribe closure of (key, fn) removes fn from
\* the listeners of key and nothing else; from then on no set invokes fn
\* under that key until fn is registered under that key again by a later
\* observe (one observe call registers at most one listener under one key);
\* calling the closure again is a no-op unless fn has been registered again,
\* in which case it removes fn again.
C5_UnsubscribeRemovesOnlyItsListener ==
    [][ /\ IsUnsubscribe(last'.op) =>
              /\ last'.fn \notin Range(OBS'[last'.o][last'.key])
              /\ OthersKept(OBS, OBS', last'.o, last'.key, last'.fn)
        /\ (last'.op = "unsubscribeAgain" /\ last'.fn \notin Range(OBS[last'.o][last'.key]))
              => OBS' = OBS
        /\ \A o \in Objs, k \in Props, fn \in UserFns :
              (fn \notin Range(OBS[o][k]) /\ last'.op /= "observe")
              => (fn \notin Range(OBS'[o][k]) /\ ~InvokedUnder(fn, k)')
        /\ last'.op = "observe" =>
              Cardinality({kf \in Props \X UserFns :
                             /\ kf[2] \notin Range(OBS[last'.o][kf[1]])
                             /\ kf[2] \in Range(OBS'[last'.o][kf[1]])}) <= 1
      ]_vars

\* C5 witness: a closure has just been called while another listener is
\* registered under the same key, which stays registered.
C5_Witness ==
    /\ last.op = "unsubscribe"
    /\ OBS[last.o][last.key] /= << >>
    /\ last.fn \notin Range(OBS[last.o][last.key])

----------------------------------------------------------------------------
(* SchedSpec: the update scheduler, driven by application code calling     *)
(* batchUpdate with its own callbacks and by the host running the flush.   *)

\* The number of times one callback is handed to batchUpdate between two
\* flushes.
MaxSchedule == 5

SchedInit ==
    /\ StoreInit

\* Application code calls batchUpdate(c).
SchedBatchUpdate ==
    \E c \in UserCbNames :
        LET st == BatchUpdate(Handler, UserCb(c)) IN
        /\ last.op = "flush" \/ schedCount[c] < MaxSchedule
        /\ updateQueue' = st.queue
        /\ isUpdateScheduled' = st.armed
        /\ scheduledFlushes' = st.sched
        /\ schedCount' = IF last.op = "flush"
                          THEN [d \in UserCbNames |-> IF d = c THEN 1 ELSE 0]
                          ELSE [schedCount EXCEPT ![c] = @ + 1]
        /\ ran' = << >>
        /\ last' = Op("batchUpdate", "", << >>, NoFn, Undefined, Undefined, FALSE)
        /\ UNCHANGED << storeVars, domVars >>

\* The host runs the armed flush.
SchedFlush ==
    /\ Flush
    /\ UNCHANGED << calls, unsubCalled, schedCount, fired >>

SchedNext ==
    \/ SchedBatchUpdate
    \/ SchedFlush

SchedSpec == SchedInit /\ [][SchedNext]_vars

\* The host runs every flush it was handed: requestAnimationFrame (or
\* setTimeout) calls the callback after a finite time.
SchedLiveSpec == SchedSpec /\ WF_vars(SchedFlush)

----------------------------------------------------------------------------
(* Claims about the update scheduler (SchedSpec).                          *)

RanCbs == [i \in 1..Len(ran) |-> ran[i].cb]

\* C6: a flush executes every pending callback exactly once, in the order
\* of first acceptance (those accepted while it runs after those accepted
\* before), and leaves the pending collection empty.
C6_FlushRunsPendingOnceInOrder ==
    [][ last'.op = "flush" =>
          /\ Len(ran') >= Len(updateQueue)
          /\ SubSeq(RanCbs', 1, Len(updateQueue)) = updateQueue
          /\ NoDup(RanCbs')
          /\ updateQueue' = << >> ]_vars

\* C6 witness: a flush has executed three or more callbacks, among them
\* one (c1) that was accepted while the flush was running (from c4).
C6_Witness ==
    /\ last.op = "flush"
    /\ Len(ran) >= 3
    /\ updateQueue = << >>
    /\ schedCount["c1"] = 0
    /\ \E i, j \in 1..Len(ran) : i < j /\ ran[i].cb = UserCb("c4") /\ ran[j].cb = UserCb("c1")

\* C7: a callback handed to batchUpdate one or more times since the last
\* flush is executed exactly once by the next flush.
C7_RepeatedScheduleRunsOnce ==
    last.op = "flush" =>
        \A c \in UserCbNames :
            schedCount[c] >= 1 => Count(RanCbs, UserCb(c)) = 1

\* C7 witness: a flush has run, exactly once, a callback that had been
\* handed to batchUpdate five times in its window.
C7_Witness ==
    /\ last.op = "flush"
    /\ \E c \in UserCbNames : schedCount[c] >= 5 /\ Count(RanCbs, UserCb(c)) = 1

\* C8: a callback that throws during a flush does not keep the others from
\* running: every callback that was pending is executed, the pending
\* collection is cleared and the armed flag reset.
C8_ThrowDoesNotAbortFlush ==
    [][ (last'.op = "flush" /\ \E i \in 1..Len(ran') : ran'[i].threw) =>
          /\ \A cb \in Range(updateQueue) : Count(RanCbs', cb) = 1
          /\ \A i \in 1..Len(ran') : ran'[i].threw <=> ran'[i].cb.name \in ThrowingCbs
          /\ updateQueue' = << >>
          /\ ~isUpdateScheduled' ]_vars

\* C8 witness: a flush in which a callback threw and a later one still ran.
C8_Witness ==
    /\ last.op = "flush"
    /\ \E i, j \in 1..Len(ran) : i < j /\ ran[i].threw /\ ~ran[j].threw
    /\ updateQueue = << >>
    /\ ~isUpdateScheduled

----------------------------------------------------------------------------
(* BindSpec: a page whose root is bound to the record {count: ...}; the    *)
(* application calls bind and $set, the host runs the armed flush.         *)

\* The number of applyFn closures created (two per bind of the page).
MaxApplyFns == 4

\* The number of callbacks pending at once.
MaxQueue == 6

BindInit ==
    /\ obj \in {[o \in Objs |-> [p \in Props |-> IF p = CountKey THEN v ELSE Undefined]]
                  : v \in {Num(0), Undefined}}
    /\ OBS = [o \in {} |-> << >>]
    /\ calls = << >>
    /\ unsubCalled = {}
    /\ updateQueue = << >>
    /\ isUpdateScheduled = FALSE
    /\ scheduledFlushes = 0
    /\ schedCount = [c \in UserCbNames |-> 0]
    /\ ran = << >>
    /\ textContent = [e \in Elems |-> IF e = "root" THEN << >> ELSE Placeholder]
    /\ dataBind \in {[e \in {"a", "b"} |-> IF e = "a" THEN AttrTextCount ELSE b]
                       : b \in {AttrShorthand, AttrSpaced}}
    /\ scopeIdAttr = [e \in {} |-> << >>]
    /\ scopeRegistry = [i \in {} |-> ""]
    /\ scopeCounter = 0
    /\ elementObservers = [e \in {} |-> << >>]
    /\ tapInstalled = {}
    /\ observerStarted = FALSE
    /\ fnCounter = 0
    /\ childNodes = [e \in Elems |-> Children(e)]
    /\ dataTap = [e \in {} |-> << >>]
    /\ elAttr = [a \in {} |-> << >>]
    /\ warnings = << >>
    /\ elValue = [e \in {} |-> << >>]
    /\ clickListeners = [e \in {} |-> 0]
    /\ inputListeners = << >>
    /\ mutations = << >>
    /\ listBinders = << >>
    /\ nodeCounter = 0
    /\ cleaned = << >>
    /\ removedElems = {}
    /\ dispatched = << >>
    /\ fired = << >>
    /\ last = NoOp

\* Application code calls px64.bind(root, S).
BindBind ==
    \E o \in Objs :
        /\ fnCounter + 2 <= MaxApplyFns
        /\ Len(updateQueue) + 2 <= MaxQueue
        /\ Bind("root", o)
        /\ calls' = << >>
        /\ ran' = << >>
        /\ UNCHANGED << unsubCalled, schedCount, fired >>

\* Application code calls S.$set(prop, value) on the scope bind returned.
BindSet ==
    \E o \in DOMAIN OBS, prop \in Props, value \in Nums \cup {Undefined} :
        /\ Len(updateQueue) + Len(OBS[o][prop]) <= MaxQueue
        /\ Set(o, prop, value)
        /\ ran' = << >>
        /\ UNCHANGED << unsubCalled, schedCount, cleaned, removedElems, dispatched, fired >>

\* The host runs the armed flush.
BindFlush ==
    /\ Flush
    /\ calls' = << >>
    /\ UNCHANGED << unsubCalled, schedCount, fired >>

BindNext ==
    \/ BindBind
    \/ BindSet
    \/ BindFlush

BindSpec == BindInit /\ [][BindNext]_vars

----------------------------------------------------------------------------
(* Claims about bind and the text binder (BindSpec).                       *)

\* The text a text binding shows for the current value of the property its
\* cleanup closure c belongs to.
CurrentText(O, c) == ToStr(Coalesce(O[c.o][c.key]))

\* The positions of the callbacks in q that write element e.
WritesTo(q, e) == {i \in 1..Len(q) : q[i].k = "write" /\ q[i].el = e}

\* The last callback in q that writes e writes the text t.
LastWriteIs(q, e, t) ==
    /\ WritesTo(q, e) /= {}
    /\ \E i \in WritesTo(q, e) :
          /\ \A j \in WritesTo(q, e) : j <= i
          /\ ToStr(Coalesce(q[i].v)) = t

\* C9 as stated: when bind returns, every text-bound element shows the
\* current value of its property.
C9_AsStated ==
    last.op = "bind" =>
        \A e \in DOMAIN elementObservers :
            \A c \in Range(elementObservers[e]) : textContent[e] = CurrentText(obj, c)

\* C9 (amended): bind writes no text-bound element itself; when it returns,
\* a flush is armed and, for every text-bound element, the pending callbacks
\* end with one that writes the current value of its property; the element
\* shows that value once the flush has run.
C9_InitialApplicationIsQueued ==
    [][ /\ last'.op = "bind" =>
              /\ textContent' = textContent
              /\ isUpdateScheduled'
              /\ DOMAIN elementObservers' = DOMAIN dataBind
              /\ \A e \in DOMAIN elementObservers' :
                    \A c \in Range(elementObservers'[e]) :
                        LastWriteIs(updateQueue', e, CurrentText(obj', c))
        /\ (last.op = "bind" /\ last'.op = "flush") =>
              \A e \in DOMAIN elementObservers :
                  \A c \in Range(elementObservers[e]) :
                      textContent'[e] = CurrentText(obj, c)
      ]_vars

\* C9 witness: bind of {count: 0} has returned, the element bound with
\* text:count still shows its placeholder and the write of 0 is pending.
C9_Witness ==
    /\ last.op = "bind"
    /\ obj["S"][CountKey] = Num(0)
    /\ dataBind["a"] = AttrTextCount
    /\ textContent["a"] = Placeholder
    /\ LastWriteIs(updateQueue, "a", << "0" >>)

\* C10: after a flush every text-bound element shows the value its property
\* holds, that is the value of the latest set.
C10_FlushShowsLatestSet ==
    last.op = "flush" =>
        \A e \in DOMAIN elementObservers :
            \A c \in Range(elementObservers[e]) : textContent[e] = CurrentText(obj, c)

\* C10 witness: after a single bind, count was set to 5 and then to 7
\* before one flush, which ran both writes; the element shows "7".
C10_Witness ==
    /\ last.op = "flush"
    /\ fnCounter = 2
    /\ \E i, j \in WritesTo(RanCbs, "a") :
          i < j /\ ran[i].cb.v = Num(5) /\ ran[j].cb.v = Num(7)
    /\ obj["S"][CountKey] = Num(7)
    /\ textContent["a"] = << "7" >>

----------------------------------------------------------------------------
(* ListSpec: a page with a text binding and a list,                        *)
(*   <body><div id=root>                                                   *)
(*     <span data-bind="text:count">-</span>                               *)
(*     <ul data-bind="list:list"><li data-bind="text:count">-</li></ul>    *)
(*   </div></body>                                                         *)
(* bound to {count: 5, list: {items: [R1, R2]}}.  The application calls    *)
(* bind and unbind on the root, sets the list's items and removes          *)
(* elements; the host runs the flush and the MutationObserver.             *)

\* The number of elements cloneNode creates.
MaxNodes == 3

ListElems == {Body, "root", "a", "ul", "li"}

AttrList == ListCmd \o << ":" >> \o ListKey

\* The arrays the application sets the list's items to.
ListRows == {<< "R2", "R1" >>, << "R1" >>}

ListInit ==
    /\ obj = [o \in {"S", "L", "R1", "R2"} |->
                CASE o = "S"  -> (CountKey :> Num(5)) @@ (ListKey :> Ref("L"))
                  [] o = "L"  -> (ItemsKey :> Arr(1, << "R1", "R2" >>))
                  [] o = "R1" -> (CountKey :> Num(0))
                  [] OTHER    -> (CountKey :> Num(7))]
    /\ OBS = [o \in {} |-> << >>]
    /\ calls = << >>
    /\ unsubCalled = {}
    /\ updateQueue = << >>
    /\ isUpdateScheduled = FALSE
    /\ scheduledFlushes = 0
    /\ schedCount = [c \in UserCbNames |-> 0]
    /\ ran = << >>
    /\ textContent = [e \in ListElems |-> IF e \in {"a", "li"} THEN Placeholder ELSE << >>]
    /\ dataBind = [e \in {"a", "ul", "li"} |-> IF e = "ul" THEN AttrList ELSE AttrTextCount]
    /\ scopeIdAttr = [e \in {} |-> << >>]
    /\ scopeRegistry = [i \in {} |-> Undefined]
    /\ scopeCounter = 0
    /\ elementObservers = [e \in {} |-> << >>]
    /\ tapInstalled = {}
    /\ observerStarted = FALSE
    /\ fnCounter = 0
    /\ childNodes = [e \in ListElems |->
                       CASE e = Body   -> << "root" >>
                         [] e = "root" -> << "a", "ul" >>
                         [] e = "ul"   -> << "li" >>
                         [] OTHER      -> << >>]
    /\ dataTap = [e \in {} |-> << >>]
    /\ elAttr = [a \in {} |-> << >>]
    /\ warnings = << >>
    /\ elValue = [e \in {} |-> << >>]
    /\ clickListeners = [e \in {} |-> 0]
    /\ inputListeners = << >>
    /\ mutations = << >>
    /\ listBinders = << >>
    /\ nodeCounter = 0
    /\ cleaned = << >>
    /\ removedElems = {}
    /\ dispatched = << >>
    /\ fired = << >>
    /\ last = NoOp

\* The rows the pending render closures will clone.
RECURSIVE PendingRows(_)
PendingRows(q) ==
    IF q = << >> THEN 0
    ELSE (IF q[1].k = "render" THEN Len(q[1].v.s) ELSE 0) + PendingRows(Tail(q))

\* Application code calls px64.bind(root, S), once.
ListBind ==
    /\ scopeCounter = 0
    /\ Bind("root", "S")
    /\ calls' = << >>
    /\ ran' = << >>
    /\ UNCHANGED << unsubCalled, schedCount, fired >>

\* Application code calls px64.unbind(root).
ListUnbind ==
    /\ Unbind("root")
    /\ calls' = << >>
    /\ ran' = << >>
    /\ UNCHANGED << unsubCalled, schedCount, fired >>

\* Application code sets the list's items to a new array.
ListSetItems ==
    \E rows \in ListRows :
        /\ "L" \in DOMAIN OBS
        /\ Len(updateQueue) + Len(ListenersOf(OBS, "L", Star)) <= MaxQueue
        /\ nodeCounter + PendingRows(updateQueue) + Len(rows) <= MaxNodes
        /\ Set("L", ItemsKey, Arr(3 - obj["L"][ItemsKey].n, rows))
        /\ ran' = << >>
        /\ UNCHANGED << unsubCalled, schedCount, cleaned, removedElems, dispatched, fired >>

\* Application code removes the list host or one of its children from its
\* parent.
ListRemove ==
    \E e \in {"ul"} \cup Range(childNodes["ul"]) :
        /\ \E p \in DOMAIN childNodes : e \in Range(childNodes[p])
        /\ Remove(e)
        /\ calls' = << >>
        /\ ran' = << >>
        /\ UNCHANGED << unsubCalled, schedCount, fired >>

\* The host runs the MutationObserver's callback.
ListDetect ==
    /\ Detect
    /\ calls' = << >>
    /\ ran' = << >>
    /\ UNCHANGED << unsubCalled, schedCount, fired >>

\* The host runs the armed flush.
ListFlush ==
    /\ nodeCounter + PendingRows(updateQueue) <= MaxNodes
    /\ Flush
    /\ calls' = << >>
    /\ UNCHANGED << unsubCalled, schedCount, fired >>

ListNext ==
    \/ ListBind
    \/ ListUnbind
    \/ ListSetItems
    \/ ListRemove
    \/ ListDetect
    \/ ListFlush

ListSpec == ListInit /\ [][ListNext]_vars

----------------------------------------------------------------------------
(* Claims about the lifecycle of a bound list (ListSpec).                  *)

\* The elements of the subtree rooted at e.
Subtree(kids, e) == {e} \cup Descendants(kids, e)

\* The cleanup closures registered for the elements es.
RegisteredFor(eo, es) == UNION {Range(eo[e]) : e \in es \cap DOMAIN eo}

RootUnbound == scopeCounter > 0 /\ "root" \notin DOMAIN scopeIdAttr

\* C12: from the return of unbind(root) until bind is called again, the
\* lifecycle tracker holds no cleanup entry for the root or for any element
\* bound below it (the span, the list, its template child, its rows).
C12_AsStated == RootUnbound => DOMAIN elementObservers = {}

----------------------------------------------------------------------------
(* LifeSpec: a page with a two-way bound input, an action, a text, a       *)
(* formatted amount and nested views,                                      *)
(*   <body><div id=root>                                                   *)
(*     <input data-bind="value:user.name,tap:go">                          *)
(*     <span data-bind="text:count,zz:count,tap:go">-</span>               *)
(*     <span data-bind="money:count">-</span>                              *)
(*     <section data-bind="view:details">                                  *)
(*       <div data-bind="view:more"><b data-bind="text:count">-</b></div>  *)
(*     </section>                                                          *)
(*   </div></body>                                                         *)
(* and the records                                                         *)
(*   S = {count: 5, user: U, details: D, go: function go}, U = {name: 'b'} *)
(*   D = {count: 7, more: M}, M = {count: 0}, T = {count: 5}.              *)
(* The application binds the root to S or to T (with T the value binder    *)
(* finds no user), binds the section to S, calls bind with a selector that *)
(* matches nothing, unbinds, and sets S.count; the user clicks and types;  *)
(* the host runs the flush.                                                *)

\* The scope identifiers and the listener closures the binds may allocate.
MaxScopes == 3
MaxFns == 6

LifeElems == {Body, "root", "i", "x", "m", "v", "y", "w"}

AttrValueTap == ValueCmd \o << ":" >> \o UserKey \o << "." >> \o NameKey
                   \o << "," >> \o TapCmd \o << ":" >> \o GoKey
AttrTextUnknownTap == TextCmd \o << ":" >> \o CountKey \o << ",", "z", "z", ":" >> \o CountKey
                         \o << "," >> \o TapCmd \o << ":" >> \o GoKey
AttrMoney == MoneyCmd \o << ":" >> \o CountKey
AttrViewDetails == ViewCmd \o << ":" >> \o DetailsKey
MoreKey == << "m", "o", "r", "e" >>
AttrViewMore == ViewCmd \o << ":" >> \o MoreKey

\* The markup's data-bind attributes.
LifeAttr(e) ==
    CASE e = "i" -> AttrValueTap
      [] e = "x" -> AttrTextUnknownTap
      [] e = "m" -> AttrMoney
      [] e = "v" -> AttrViewDetails
      [] e = "y" -> AttrViewMore
      [] OTHER   -> AttrTextCount

\* The roots the application binds, and the records it binds them to.
LifeRoots == {"root", "v"}
LifeScopes(h) == IF h = "root" THEN {"S", "T"} ELSE {"S"}

LifeInit ==
    /\ obj = [o \in {"S", "T", "U", "D", "M"} |->
                CASE o = "S" -> (CountKey :> Num(5)) @@ (UserKey :> Ref("U"))
                                  @@ (DetailsKey :> Ref("D")) @@ (GoKey :> Fn("go"))
                  [] o = "T" -> (CountKey :> Num(5))
                  [] o = "U" -> (NameKey :> Str(<< "b" >>))
                  [] o = "D" -> (CountKey :> Num(7)) @@ (MoreKey :> Ref("M"))
                  [] OTHER   -> (CountKey :> Num(0))]
    /\ OBS = [o \in {} |-> << >>]
    /\ calls = << >>
    /\ unsubCalled = {}
    /\ updateQueue = << >>
    /\ isUpdateScheduled = FALSE
    /\ scheduledFlushes = 0
    /\ schedCount = [c \in UserCbNames |-> 0]
    /\ ran = << >>
    /\ textContent = [e \in LifeElems |-> IF e \in {"x", "m", "w"} THEN Placeholder ELSE << >>]
    /\ dataBind = [e \in {"i", "x", "m", "v", "y", "w"} |-> LifeAttr(e)]
    /\ scopeIdAttr = [e \in {} |-> << >>]
    /\ scopeRegistry = [i \in {} |-> Undefined]
    /\ scopeCounter = 0
    /\ elementObservers = [e \in {} |-> << >>]
    /\ tapInstalled = {}
    /\ observerStarted = FALSE
    /\ fnCounter = 0
    /\ childNodes = [e \in LifeElems |->
                       CASE e = Body   -> << "root" >>
                         [] e = "root" -> << "i", "x", "m", "v" >>
                         [] e = "v"    -> << "y" >>
                         [] e = "y"    -> << "w" >>
                         [] OTHER      -> << >>]
    /\ dataTap = [e \in {} |-> << >>]
    /\ elAttr = [a \in {} |-> << >>]
    /\ warnings = << >>
    /\ elValue = [e \in {"i"} |-> << >>]
    /\ clickListeners = [e \in {} |-> 0]
    /\ inputListeners = << >>
    /\ mutations = << >>
    /\ listBinders = << >>
    /\ nodeCounter = 0
    /\ cleaned = << >>
    /\ removedElems = {}
    /\ dispatched = << >>
    /\ fired = << >>
    /\ last = NoOp

\* Application code calls px64.bind(h, o) for a root that is found, as long
\* as the scope identifiers and closures allocated stay within the bounds.
LifeBind ==
    \E h \in LifeRoots : \E o \in LifeScopes(h) :
        /\ Bind(h, o)
        /\ scopeCounter' <= MaxScopes
        /\ fnCounter' <= MaxFns
        /\ calls' = << >>
        /\ ran' = << >>
        /\ fired' = << >>
        /\ UNCHANGED << unsubCalled, schedCount >>

\* Application code calls px64.bind('#missing', S).
LifeBindMissing ==
    /\ Bind(NoElem, "S")
    /\ calls' = << >>
    /\ ran' = << >>
    /\ fired' = << >>
    /\ UNCHANGED << unsubCalled, schedCount >>

\* Application code calls px64.unbind(h).
LifeUnbind ==
    \E h \in LifeRoots :
        /\ Unbind(h)
        /\ calls' = << >>
        /\ ran' = << >>
        /\ fired' = << >>
        /\ UNCHANGED << unsubCalled, schedCount >>

\* Application code calls S.$set('count', 6) while no callback is pending.
LifeSet ==
    /\ "S" \in DOMAIN OBS
    /\ updateQueue = << >>
    /\ Set("S", CountKey, Num(6))
    /\ ran' = << >>
    /\ fired' = << >>
    /\ UNCHANGED << unsubCalled, schedCount, cleaned, removedElems, dispatched >>

\* The user clicks the span.
LifeClick ==
    /\ Click("x")
    /\ calls' = << >>
    /\ ran' = << >>
    /\ UNCHANGED << unsubCalled, schedCount >>

\* The user types into the input.
LifeInput ==
    /\ Input("i", << "a" >>)
    /\ ran' = << >>
    /\ fired' = << >>
    /\ UNCHANGED << unsubCalled, schedCount >>

\* The host runs the armed flush.
LifeFlush ==
    /\ Flush
    /\ calls' = << >>
    /\ fired' = << >>
    /\ UNCHANGED << unsubCalled, schedCount >>

LifeNext ==
    \/ LifeBind
    \/ LifeBindMissing
    \/ LifeUnbind
    \/ LifeSet
    \/ LifeClick
    \/ LifeInput
    \/ LifeFlush

LifeSpec == LifeInit /\ [][LifeNext]_vars

----------------------------------------------------------------------------
(* Claims about bind, unbind and the events of a bound page (LifeSpec).    *)

\* The listeners subscribed on any scope, with the record and key they are
\* subscribed under.
Subscriptions ==
    UNION {UNION {{Closure(o, key, fn) : fn \in Range(OBS[o][key])} : key \in DOMAIN OBS[o]} :
              o \in DOMAIN OBS}

\* The element unbind was last called with.
Unbound == last.value.o

\* C13: every subscription a binder created is registered in the cleanup
\* set of the binder's element; and when unbind(root) has returned, no
\* listener created by binding an element of root's subtree is subscribed
\* on any scope.
C13_AsStated ==
    /\ \A c \in Subscriptions :
          c.fn.el \in DOMAIN elementObservers /\ c \in Range(elementObservers[c.fn.el])
    /\ last.op = "unbind" =>
          \A c \in Subscriptions : c.fn.el \notin Subtree(childNodes, Unbound)

\* C14: when unbind(root) has returned, neither root nor any of its
\* descendants carries data-bind, data-tap or data-scope-id.
C14_AsStated ==
    last.op = "unbind" =>
        \A e \in Subtree(childNodes, Unbound) :
            e \notin DOMAIN dataBind \cup DOMAIN dataTap \cup DOMAIN scopeIdAttr

\* unbind was called on the page's root after a bind of it that returned,
\* and bind has not been called on it since.
RootReleased == "root" \in tapInstalled /\ "root" \notin DOMAIN scopeIdAttr

\* C15: while the root is unbound, a click inside it invokes no scope
\* handler and typing into the formerly two-way-bound input writes nothing
\* into a scope record.
C15_AsStated ==
    [][ RootReleased =>
          /\ last'.op = "click" => fired' = << >>
          /\ last'.op = "input" => obj' = obj
      ]_vars

\* The elements of the page below root whose data-bind holds a view token
\* with an argument that resolves, from S, to a record: the section (S.details)
\* and the division in it (S.details.more).
ViewScopes == [e \in {"v", "y"} |-> IF e = "v" THEN Ref("D") ELSE Ref("M")]

\* C16: when bind(root, S) has returned normally, every element below the
\* root that carries a view token has a scope identifier registered to its
\* nested scope, and the text binding below the views has been applied
\* against the innermost nested scope.
C16_AsStated ==
    (last.op = "bind" /\ last.value = ElemVal("root") /\ last.o = "S" /\ ~last.threw
       /\ {"v", "y", "w"} \subseteq DOMAIN dataBind) =>
        /\ \A e \in DOMAIN ViewScopes :
              /\ e \in DOMAIN scopeIdAttr
              /\ scopeIdAttr[e] \in DOMAIN scopeRegistry
              /\ scopeRegistry[scopeIdAttr[e]] = ViewScopes[e]
        /\ \E i \in 1..Len(dispatched) :
              dispatched[i] = Dispatch("w", TextCmd, CountKey, Ref("M"))

\* The tokens of the markup of element e that name a registered command,
\* as the dispatches of a pass that binds e against scope.
Expected(e, scope) ==
    LET known == SelectSeq(ParseBinds(LifeAttr(e)), LAMBDA t : t.cmd \in Binders)
    IN  [i \in 1..Len(known) |-> Dispatch(e, known[i].cmd, known[i].arg, scope)]

\* The dispatches of the last operation for element e.
DispatchedFor(e) == SelectSeq(dispatched, LAMBDA d : d.el = e)

\* C17: when a bind of the root in which a binder threw has ended, the
\* remaining tokens of the binder's element and the tokens of the root's
\* other elements (outside the views) have still been dispatched.
C17_AsStated ==
    (last.op = "bind" /\ last.value = ElemVal("root") /\ last.threw) =>
        \A e \in {"i", "x", "m"} :
            e \in DOMAIN dataBind => DispatchedFor(e) = Expected(e, Ref(last.o))

\* The element-and-scope pairs of the last operation's dispatches.
Visits == {<< dispatched[i].el, dispatched[i].scope >> : i \in 1..Len(dispatched)}

\* The position of the first dispatch for element e.
FirstDispatch(e) == CHOOSE i \in 1..Len(dispatched) :
                        /\ dispatched[i].el = e
                        /\ \A j \in 1..(i - 1) : dispatched[j].el /= e

\* C18: in a bind in which no binder threw, the dispatches for an element
\* and a scope are the element's tokens with a registered command, in their
\* written order: a token with an unregistered command is skipped, the
\* tokens after it are dispatched, and the walk goes on to the next element.
C18_UnknownCommandIsSkipped ==
    (last.op = "bind" /\ ~last.threw) =>
        /\ \A p \in Visits :
              SelectSeq(dispatched, LAMBDA d : d.el = p[1] /\ d.scope = p[2])
                  = Expected(p[1], p[2])
        /\ (last.value = ElemVal("root") /\ {"x", "m"} \subseteq DOMAIN dataBind) =>
              /\ DispatchedFor("x") = << Dispatch("x", TextCmd, CountKey, Ref(last.o)),
                                          Dispatch("x", TapCmd, GoKey, Ref(last.o)) >>
              /\ DispatchedFor("m") /= << >>
              /\ FirstDispatch("x") < FirstDispatch("m")

\* C18 witness: bind(root, S) has returned normally; the span with the
\* unregistered command zz got its text and tap tokens dispatched, the
\* action marker is set, and the element after it was bound.
C18_Witness ==
    /\ last.op = "bind" /\ ~last.threw /\ last.value = ElemVal("root") /\ last.o = "S"
    /\ Len(DispatchedFor("x")) = 2
    /\ Len(ParseBinds(dataBind["x"])) = 3
    /\ "x" \in DOMAIN dataTap /\ dataTap["x"] = GoKey
    /\ DispatchedFor("m") /= << >>

\* C19: bind with a root that does not resolve throws and changes nothing:
\* no record is upgraded, no scope identifier is allocated or registered, no
\* click listener is installed, no binder is dispatched, nothing is queued.
C19_BindMissingRootChangesNothing ==
    [][ (last'.op = "bind" /\ last'.value = ElemVal(NoElem)) =>
          /\ last'.threw
          /\ UNCHANGED progVars
          /\ dispatched' = << >>
      ]_vars

\* C19 witness: bind('#missing', S) has thrown before anything was bound:
\* S has no listener map, no scope identifier exists, no element has a
\* click listener.
C19_Witness ==
    /\ last.op = "bind" /\ last.value = ElemVal(NoElem) /\ last.o = "S" /\ last.threw
    /\ "S" \notin DOMAIN OBS
    /\ scopeCounter = 0
    /\ DOMAIN scopeRegistry = {}
    /\ DOMAIN clickListeners = {}

\* The click listeners the engine has added to element e.
ClickListenerCount(clk, e) == IF e \in DOMAIN clk THEN clk[e] ELSE 0

\* C20: no element ever has more than one delegated click listener, the
\* count never changes once it is one, and the root of a bind that has
\* returned has exactly one, whatever binds and unbinds went before.
C20_OneClickListenerPerRoot ==
    [][ /\ \A e \in LifeElems :
              /\ ClickListenerCount(clickListeners', e) <= 1
              /\ ClickListenerCount(clickListeners', e) >= ClickListenerCount(clickListeners, e)
        /\ (last'.op = "bind" /\ ~last'.threw) =>
              ClickListenerCount(clickListeners', last'.value.o) = 1
      ]_vars

\* C20 witness: bind(root, S) has returned for the third time, the second
\* time on the bound root and the third time after unbind(root): the root
\* carries its second scope identifier, its attributes are stripped, six
\* closures were created, and it has one click listener.
C20_Witness ==
    /\ last.op = "bind" /\ ~last.threw /\ last.value = ElemVal("root") /\ last.o = "S"
    /\ fnCounter = 6
    /\ "root" \in DOMAIN scopeIdAttr /\ scopeIdAttr["root"] = << "2" >>
    /\ "x" \notin DOMAIN dataBind
    /\ clickListeners["root"] = 1

(***************************************************************************)
(* The delegated click listener.  The page is                              *)
(*   body > app > { b1 > s, b2, b3, b4, q, panel > c1 }                    *)
(* where b1, b2, b3, b4 and c1 carry data-bind attributes with a tap       *)
(* token, s is a span inside the button b1, and q carries a data-tap       *)
(* attribute written in the markup.  The application binds app to S or to  *)
(* P and panel to P, unbinds them, and the user clicks.                    *)
(***************************************************************************)

TapElems == {Body, "app", "b1", "s", "b2", "b3", "b4", "q", "panel", "c1"}

SetStatusKey == << "s", "e", "t", "S", "t", "a", "t", "u", "s" >>
OkArg == << "o", "k" >>
AttrTapGo == TapCmd \o << ":" >> \o GoKey
AttrTapSetStatus == TapCmd \o << ":" >> \o SetStatusKey \o << "(", "'" >> \o OkArg \o << "'", ")" >>
AttrTapGoCall == TapCmd \o << ":" >> \o GoKey \o << "(", "'" >> \o OkArg \o << "'", ")" >>
AttrTapCount == TapCmd \o << ":" >> \o CountKey

\* The markup's data-bind attributes.
TapAttr(e) ==
    CASE e = "b2" -> AttrTapSetStatus
      [] e = "b3" -> AttrTapGoCall
      [] e = "b4" -> AttrTapCount
      [] OTHER   -> AttrTapGo

\* The roots the application binds, and the records it binds them to.
TapRoots == {"app", "panel"}
TapScopes(h) == IF h = "app" THEN {"S", "P"} ELSE {"P"}

\* The elements the user clicks.
TapTargets == {"s", "b2", "b3", "b4", "q", "c1"}

TapInit ==
    /\ obj = [o \in {"S", "P"} |->
                IF o = "S"
                THEN (CountKey :> Num(5)) @@ (GoKey :> Fn("go"))
                       @@ (SetStatusKey :> Fn("setStatus"))
                ELSE (GoKey :> Fn("go"))]
    /\ OBS = [o \in {} |-> << >>]
    /\ calls = << >>
    /\ unsubCalled = {}
    /\ updateQueue = << >>
    /\ isUpdateScheduled = FALSE
    /\ scheduledFlushes = 0
    /\ schedCount = [c \in UserCbNames |-> 0]
    /\ ran = << >>
    /\ textContent = [e \in TapElems |-> << >>]
    /\ dataBind = [e \in {"b1", "b2", "b3", "b4", "c1"} |-> TapAttr(e)]
    /\ scopeIdAttr = [e \in {} |-> << >>]
    /\ scopeRegistry = [i \in {} |-> Undefined]
    /\ scopeCounter = 0
    /\ elementObservers = [e \in {} |-> << >>]
    /\ tapInstalled = {}
    /\ observerStarted = FALSE
    /\ fnCounter = 0
    /\ childNodes = [e \in TapElems |->
                       CASE e = Body    -> << "app" >>
                         [] e = "app"   -> << "b1", "b2", "b3", "b4", "q", "panel" >>
                         [] e = "b1"    -> << "s" >>
                         [] e = "panel" -> << "c1" >>
                         [] OTHER       -> << >>]
    /\ dataTap = [e \in {"q"} |-> GoKey]
    /\ elAttr = [a \in {} |-> << >>]
    /\ warnings = << >>
    /\ elValue = [e \in {} |-> << >>]
    /\ clickListeners = [e \in {} |-> 0]
    /\ inputListeners = << >>
    /\ mutations = << >>
    /\ listBinders = << >>
    /\ nodeCounter = 0
    /\ cleaned = << >>
    /\ removedElems = {}
    /\ dispatched = << >>
    /\ fired = << >>
    /\ last = NoOp

\* Application code calls px64.bind(h, o), as long as the scope
\* identifiers allocated stay within the bound.
TapBind ==
    \E h \in TapRoots : \E o \in TapScopes(h) :
        /\ Bind(h, o)
        /\ scopeCounter' <= MaxScopes
        /\ calls' = << >>
        /\ ran' = << >>
        /\ fired' = << >>
        /\ UNCHANGED << unsubCalled, schedCount >>

\* Application code calls px64.unbind(h).
TapUnbind ==
    \E h \in TapRoots :
        /\ Unbind(h)
        /\ calls' = << >>
        /\ ran' = << >>
        /\ fired' = << >>
        /\ UNCHANGED << unsubCalled, schedCount >>

\* The user clicks an element of the page.
TapClick ==
    \E e \in TapTargets :
        /\ Click(e)
        /\ calls' = << >>
        /\ ran' = << >>
        /\ UNCHANGED << unsubCalled, schedCount >>

TapNext ==
    \/ TapBind
    \/ TapUnbind
    \/ TapClick

TapSpec == TapInit /\ [][TapNext]_vars


(***************************************************************************)
(* Claims about the delegated click listener (TapSpec).                    *)
(***************************************************************************)

\* The first element of path that is in M, or NoElem.
FirstIn(path, M) ==
    IF \E i \in 1..Len(path) : path[i] \in M
    THEN path[CHOOSE i \in 1..Len(path) :
                  path[i] \in M /\ \A j \in 1..(i - 1) : path[j] \notin M]
    ELSE NoElem

\* For the click recorded in last: the clicked element, the nearest
\* action-marked element, the nearest scope boundary enclosing that, and
\* the scope registered for it.
Clicked == last.value.o
ActionElem ==
    With(PathUp(childNodes, Clicked), LAMBDA path : FirstIn(path, DOMAIN dataTap))
BoundaryElem ==
    With(ActionElem,
         LAMBDA a : IF a = NoElem THEN NoElem
                    ELSE With(PathUp(childNodes, a),
                              LAMBDA path : FirstIn(path, DOMAIN scopeIdAttr)))
OwningScope ==
    With(BoundaryElem,
         LAMBDA b : IF b /= NoElem /\ scopeIdAttr[b] \in DOMAIN scopeRegistry
                    THEN scopeRegistry[scopeIdAttr[b]]
                    ELSE Undefined)

\* The functions of a scope, and what they return.
FunctionsOf(scope) ==
    {obj[scope.o][k].o : k \in {k \in DOMAIN obj[scope.o] : obj[scope.o][k].t = "function"}}
ReturnedBy(fns) == {FnResult(f).o : f \in {f \in fns : FnResult(f).t = "function"}}

\* C21: on a click, every function invoked is a function of the scope that
\* is registered for the nearest scope boundary enclosing the nearest
\* action-marked element of the click target (or the function such a
\* function returned), and is called on that scope; if there is no
\* action-marked element or no registered owning scope, the click invokes
\* nothing and changes no state.
C21_ClickResolvesOnNearestScope ==
    [][ last'.op = "click" =>
          \E target \in {ActionElem'} : \E scope \in {OwningScope'} :
              /\ \A i \in 1..Len(fired') :
                    /\ scope /= Undefined
                    /\ fired'[i].this = scope
                    /\ fired'[i].fn \in FunctionsOf(scope)' \cup ReturnedBy(FunctionsOf(scope))'
                    /\ fired'[i].param = Undefined =>
                           fired'[i].el = target /\ fired'[i].scope = scope
              /\ (target = NoElem \/ scope = Undefined) =>
                    fired' = << >> /\ UNCHANGED progVars ]_vars

\* C21 witness: app and panel are both scope boundaries, the user has
\* clicked c1 inside panel, and the function was called on P, the scope of
\* panel.
C21_Witness ==
    /\ last.op = "click"
    /\ Clicked = "c1"
    /\ {"app", "panel"} \subseteq DOMAIN scopeIdAttr
    /\ scopeRegistry[scopeIdAttr["app"]] = Ref("S")
    /\ fired /= << >>
    /\ fired[1] = EventCall("go", Ref("P"), "c1")

\* The calls one click listener makes for the click recorded in last.
ExpectedCalls ==
    With(<< ActionElem, OwningScope >>,
         LAMBDA c :
             IF c[1] = NoElem \/ c[2] = Undefined THEN << >>
             ELSE With(FunctionCallMatch(dataTap[c[1]]),
                       LAMBDA m :
                  With(ResolvePath(obj, c[2], IF m = << >> THEN dataTap[c[1]] ELSE m[1]),
                       LAMBDA fn :
                           IF fn.t /= "function" THEN << >>
                           ELSE IF m = << >> THEN << EventCall(fn.o, c[2], c[1]) >>
                           ELSE IF FnResult(fn.o).t = "function"
                           THEN << ParamCall(fn.o, c[2], m[2]),
                                   EventCall(FnResult(fn.o).o, c[2], c[1]) >>
                           ELSE << ParamCall(fn.o, c[2], m[2]) >>)))

\* The click listeners on the path of the click recorded in last.
ListenersReached ==
    LET path == PathUp(childNodes, Clicked)
        on   == {i \in 1..Len(path) : path[i] \in DOMAIN clickListeners}
        RECURSIVE Sum(_)
        Sum(I) == IF I = {} THEN 0
                  ELSE LET i == CHOOSE i \in I : TRUE
                       IN  clickListeners[path[i]] + Sum(I \ {i})
    IN  Sum(on)

RECURSIVE Repeat(_, _)
Repeat(q, n) == IF n = 0 THEN << >> ELSE q \o Repeat(q, n - 1)

\* C22 as stated: a click on an action-marked element with an owning scope
\* makes the calls of the action exactly once.
C22_AsStated ==
    (last.op = "click" /\ ListenersReached > 0) => fired = ExpectedCalls

\* C22 (amended): every click listener the click reaches makes the calls of
\* the action once: a plain path calls the function at the path on the
\* owning scope with {element, scope, event}; the call form calls the
\* function with the quoted argument and then, only if it returned a
\* function, the returned function with {element, scope, event}; an action
\* that does not resolve to a function calls nothing.
C22_OncePerListenerReached ==
    last.op = "click" => fired = Repeat(ExpectedCalls, ListenersReached)

\* C22 witness: the user has clicked b2, whose action is setStatus('ok'),
\* under one listener: setStatus was called with 'ok' and the function it
\* returned with the element and the scope.
C22_Witness ==
    /\ last.op = "click"
    /\ Clicked = "b2"
    /\ ListenersReached = 1
    /\ fired = << ParamCall("setStatus", Ref("S"), OkArg),
                  EventCall("applyStatus", Ref("S"), "b2") >>


(***************************************************************************)
(* A list bound to a listState.  The page is                               *)
(*   body > root > ul[list:list] > li[text:count]                          *)
(* with S = {list: L} and L = listState([R1, R2]).  The application binds  *)
(* the root once and then calls the methods of L; the host runs the armed  *)
(* flush.                                                                  *)
(***************************************************************************)

\* The clones of the template that a behaviour creates.
MaxClones == 4

PageElems == {Body, "root", "ul", "li"}

\* The arrays the application passes to setItems.
PageRows == {<< "R1", "R2" >>, << "R2", "R1" >>, << "R1" >>}

PageInit ==
    /\ obj = [o \in {"S", "L", "R1", "R2"} |->
                CASE o = "S"  -> (ListKey :> Ref("L"))
                  [] o = "L"  -> (ItemsKey :> Arr(1, << "R1", "R2" >>))
                                   @@ (PageKey :> Num(1)) @@ (PageSizeKey :> Num(20))
                                   @@ (SortKeyKey :> Null) @@ (SortDirKey :> Str(Asc))
                                   @@ (TotalKey :> Num(2)) @@ (PagedKey :> Fn("paged"))
                  [] o = "R1" -> (CountKey :> Num(0))
                  [] OTHER    -> (CountKey :> Num(7))]
    /\ OBS = [o \in {"L"} |-> [p \in Props |-> << >>]]
    /\ calls = << >>
    /\ unsubCalled = {}
    /\ updateQueue = << >>
    /\ isUpdateScheduled = FALSE
    /\ scheduledFlushes = 0
    /\ schedCount = [c \in UserCbNames |-> 0]
    /\ ran = << >>
    /\ textContent = [e \in PageElems |-> IF e = "li" THEN Placeholder ELSE << >>]
    /\ dataBind = [e \in {"ul", "li"} |-> IF e = "ul" THEN AttrList ELSE AttrTextCount]
    /\ scopeIdAttr = [e \in {} |-> << >>]
    /\ scopeRegistry = [i \in {} |-> Undefined]
    /\ scopeCounter = 0
    /\ elementObservers = [e \in {} |-> << >>]
    /\ tapInstalled = {}
    /\ observerStarted = FALSE
    /\ fnCounter = 0
    /\ childNodes = [e \in PageElems |->
                       CASE e = Body   -> << "root" >>
                         [] e = "root" -> << "ul" >>
                         [] e = "ul"   -> << "li" >>
                         [] OTHER      -> << >>]
    /\ dataTap = [e \in {} |-> << >>]
    /\ elAttr = [a \in {} |-> << >>]
    /\ warnings = << >>
    /\ elValue = [e \in {} |-> << >>]
    /\ clickListeners = [e \in {} |-> 0]
    /\ inputListeners = << >>
    /\ mutations = << >>
    /\ listBinders = << >>
    /\ nodeCounter = 0
    /\ cleaned = << >>
    /\ removedElems = {}
    /\ dispatched = << >>
    /\ fired = << >>
    /\ last = NoOp

\* The clones made so far and the clones the pending renders will make stay
\* within the bound, and so does the queue.
PageWithinBounds ==
    /\ nodeCounter' + PendingRows(updateQueue') <= MaxClones
    /\ Len(updateQueue') <= MaxQueue

\* A method of L that application code calls, ending in st.
PageCall(st, name, value) ==
    /\ Finish([st EXCEPT !.threw = FALSE],
              Op(name, "L", << >>, NoFn, value, Undefined, st.threw))
    /\ calls' = st.log
    /\ ran' = << >>
    /\ PageWithinBounds
    /\ UNCHANGED << unsubCalled, schedCount, fired >>

\* Application code calls px64.bind(root, S), once.
PageBind ==
    /\ scopeCounter = 0
    /\ Bind("root", "S")
    /\ calls' = << >>
    /\ ran' = << >>
    /\ UNCHANGED << unsubCalled, schedCount, fired >>

\* Application code calls L.setItems(rows).
PageSetItems ==
    \E rows \in PageRows :
    \E st \in {SetItems(Handler, "L", rows, 3 - obj["L"][ItemsKey].n)} :
        PageCall(st, "setItems", Arr(0, rows))

\* Application code calls L.$set('pageSize', 1).
PageSetPageSize ==
    \E st \in {SetIn(Handler, "L", PageSizeKey, Num(1))} :
        PageCall(st, "setPageSize", Num(1))

\* Application code calls L.nextPage() or L.prevPage().
PageNextPage ==
    \E st \in {NextPage(Handler, "L")} : PageCall(st, "nextPage", Undefined)

PagePrevPage ==
    \E st \in {PrevPage(Handler, "L")} : PageCall(st, "prevPage", Undefined)

\* Application code calls L.sortBy('count', 'desc').
PageSortBy ==
    \E st \in {SortBy(Handler, "L", CountKey, Desc)} : PageCall(st, "sortBy", Str(CountKey))

\* The host runs the armed flush.
PageFlush ==
    /\ Flush
    /\ calls' = << >>
    /\ UNCHANGED << unsubCalled, schedCount, fired >>

PageNext ==
    \/ PageBind
    \/ PageSetItems
    \/ PageSetPageSize
    \/ PageNextPage
    \/ PagePrevPage
    \/ PageSortBy
    \/ PageFlush

PageSpec == PageInit /\ [][PageNext]_vars


(***************************************************************************)
(* Claims about the list renderer (PageSpec).                              *)
(***************************************************************************)

\* The slice of the previous render: the rows of the render scheduled
\* last, whether it is still pending or has been flushed.
PreviousSlice ==
    LET pending == SelectSeq(updateQueue, LAMBDA c : c.k = "render")
    IN  IF pending /= << >> THEN pending[Len(pending)].v.s ELSE listBinders[1].last

\* C23 as stated: when the list's trigger fires and the visible slice is,
\* element by element, the slice of the previous render, no render is
\* scheduled and the container is not touched, whether or not the previous
\* render has been flushed.
C23_AsStated ==
    [][ (listBinders /= << >> /\ last'.op /= "flush" /\ calls' /= << >>) =>
          \E prev \in {PreviousSlice} : \E rows \in {VisibleRows(obj', Ref("L"))} :
              rows = prev =>
                  /\ updateQueue' = updateQueue
                  /\ childNodes' = childNodes
                  /\ nodeCounter' = nodeCounter ]_vars

\* The rows the container shows: the items whose count its children display.
ShowsRows(rows) ==
    LET kids == childNodes["ul"]
    IN  /\ Len(kids) = Len(rows)
        /\ \A i \in 1..Len(rows) : textContent[kids[i]] = ToStr(obj[rows[i]][CountKey])

\* C24 as stated: after a flush, the container of the bound list holds one
\* row per item of the visible slice, in slice order, and nothing else.
C24_AsStated ==
    (last.op = "flush" /\ listBinders /= << >>) => ShowsRows(VisibleRows(obj, Ref("L")))


(***************************************************************************)
(* A page with a long list: body > root > ul[list:list] > li[text:count],  *)
(* bound to S = {list: B}, where B = observable({items}) holds one row     *)
(* more than the threshold of incremental rendering.  The host runs the    *)
(* flush and the idle callbacks in any order.                              *)
(***************************************************************************)

\* The rows cloned, and to be cloned by pending renders and chunks, in one
\* behaviour: the long list and two short ones.
MaxRows == 103

\* The rows of the long list: r1 .. r101, the count of row i is i.
LongRows == [i \in 1..(ChunkThreshold + 1) |-> "r" \o ToString(i)]
ShortRows == << "r1" >>

ChunkElems == {Body, "root", "ul", "li"}

ChunkInit ==
    /\ obj = [o \in {"S", "B"} \cup Range(LongRows) |->
                CASE o = "S" -> (ListKey :> Ref("B"))
                  [] o = "B" -> (ItemsKey :> Arr(1, LongRows))
                  [] OTHER   -> (CountKey :> Num(CHOOSE i \in DOMAIN LongRows : LongRows[i] = o))]
    /\ OBS = [o \in {"B"} |-> [p \in Props |-> << >>]]
    /\ calls = << >>
    /\ unsubCalled = {}
    /\ updateQueue = << >>
    /\ isUpdateScheduled = FALSE
    /\ scheduledFlushes = 0
    /\ schedCount = [c \in UserCbNames |-> 0]
    /\ ran = << >>
    /\ textContent = [e \in ChunkElems |-> IF e = "li" THEN Placeholder ELSE << >>]
    /\ dataBind = [e \in {"ul", "li"} |-> IF e = "ul" THEN AttrList ELSE AttrTextCount]
    /\ scopeIdAttr = [e \in {} |-> << >>]
    /\ scopeRegistry = [i \in {} |-> Undefined]
    /\ scopeCounter = 0
    /\ elementObservers = [e \in {} |-> << >>]
    /\ tapInstalled = {}
    /\ observerStarted = FALSE
    /\ fnCounter = 0
    /\ childNodes = [e \in ChunkElems |->
                       CASE e = Body   -> << "root" >>
                         [] e = "root" -> << "ul" >>
                         [] e = "ul"   -> << "li" >>
                         [] OTHER      -> << >>]
    /\ dataTap = [e \in {} |-> << >>]
    /\ elAttr = [a \in {} |-> << >>]
    /\ warnings = << >>
    /\ elValue = [e \in {} |-> << >>]
    /\ clickListeners = [e \in {} |-> 0]
    /\ inputListeners = << >>
    /\ mutations = << >>
    /\ listBinders = << >>
    /\ nodeCounter = 0
    /\ cleaned = << >>
    /\ removedElems = {}
    /\ dispatched = << >>
    /\ fired = << >>
    /\ last = NoOp

\* The rows the scheduled chunks have yet to clone.
RECURSIVE PendingChunkRows(_)
PendingChunkRows(idle) ==
    IF idle = << >> THEN 0
    ELSE Len(idle[1].rows) - idle[1].index + PendingChunkRows(Tail(idle))

\* The clones made so far and those the pending renders and chunks will
\* make stay within the bound.
ChunkWithinBounds ==
    nodeCounter' + PendingRows(updateQueue')
        + (IF listBinders' = << >> THEN 0 ELSE PendingChunkRows(listBinders'[1].idle))
      <= MaxRows

\* Application code calls px64.bind(root, S), once.
ChunkBind ==
    /\ scopeCounter = 0
    /\ Bind("root", "S")
    /\ calls' = << >>
    /\ ran' = << >>
    /\ UNCHANGED << unsubCalled, schedCount, fired >>

\* Application code calls B.$set('items', rows) with a new array.
ChunkSetItems ==
    \E rows \in {LongRows, ShortRows} :
    \E st \in {SetIn(Handler, "B", ItemsKey, Arr(3 - obj["B"][ItemsKey].n, rows))} :
        /\ Finish([st EXCEPT !.threw = FALSE],
                  Op("set", "B", ItemsKey, NoFn, Arr(0, rows), Undefined, st.threw))
        /\ calls' = st.log
        /\ ran' = << >>
        /\ ChunkWithinBounds
        /\ UNCHANGED << unsubCalled, schedCount, fired >>

\* Application code calls r1.$set('count', 7) on the first row, once it is
\* observable and while no callback is pending.
ChunkSetCount ==
        /\ "r1" \in DOMAIN OBS
        /\ updateQueue = << >>
        /\ Set("r1", CountKey, Num(7))
        /\ ran' = << >>
        /\ UNCHANGED << unsubCalled, schedCount, cleaned, removedElems, dispatched, fired >>

\* The host runs the armed flush.
ChunkFlush ==
    /\ Flush
    /\ calls' = << >>
    /\ UNCHANGED << unsubCalled, schedCount, fired >>

\* The host runs the oldest idle callback: the renderChunk closure c of the
\* list binder.  The operation records its rows and the index it starts at.
ChunkIdle ==
    /\ listBinders /= << >>
    /\ listBinders[1].idle /= << >>
    /\ \E c \in {Head(listBinders[1].idle)} :
       \E st \in {RenderChunk([Handler EXCEPT !.lists[1].idle = Tail(@)], 1, c)} :
          /\ Finish([st EXCEPT !.threw = FALSE],
                    Op("idle", "", << >>, NoFn, Arr(0, c.rows), Num(c.index), st.threw))
          /\ calls' = << >>
          /\ ran' = << >>
          /\ UNCHANGED << unsubCalled, schedCount, fired >>

ChunkNext ==
    \/ ChunkBind
    \/ ChunkSetItems
    \/ ChunkSetCount
    \/ ChunkFlush
    \/ ChunkIdle

ChunkSpec == ChunkInit /\ [][ChunkNext]_vars

(***************************************************************************)
(* Claims about incremental rendering (ChunkSpec).                         *)
(***************************************************************************)

\* The text the element shows once the pending writes have run: the value
\* of the last write queued for it, or else its text.
EventualText(e) ==
    LET writes == SelectSeq(updateQueue, LAMBDA c : c.k = "write" /\ c.el = e)
    IN  IF writes /= << >> THEN ToStr(Coalesce(writes[Len(writes)].v)) ELSE textContent[e]

\* The container holds one row node per item of rows, in order.
HoldsRows(rows) ==
    LET kids == childNodes["ul"]
    IN  /\ Len(kids) = Len(rows)
        /\ \A i \in 1..Len(rows) : EventualText(kids[i]) = ToStr(obj[rows[i]][CountKey])

\* The operation ran the last chunk of an incremental rendering.
LastChunkRan ==
    /\ last.op = "idle"
    /\ last.old.n + chunkSize >= Len(last.value.s)

\* C25 as stated: when the last chunk of an incremental rendering of N > 100
\* rows has run, the container holds exactly N row nodes, one per item of
\* the slice and in slice order.
C25_AsStated == LastChunkRan => HoldsRows(last.value.s)


(***************************************************************************)
(* The path resolver as a function: one call resolvePath(root, path) in a  *)
(* heap of nested records, for every root and every path up to a length.   *)
(***************************************************************************)

MaxPathLen == 5

\* The characters of the paths: property names of one letter, and the dot.
PathChars == {"a", "b", "c", "x", "y", "."}

RECURSIVE Strings(_, _)
Strings(chars, n) ==
    IF n = 0 THEN {<< >>}
    ELSE LET shorter == Strings(chars, n - 1)
         IN  shorter \cup {Append(str, ch) : str \in shorter, ch \in chars}

\* The paths of the calls.
Paths == Strings(PathChars, MaxPathLen)

\* The roots of the calls: {a: {b: {c: 5}, x: null}}, {a: {}}, a number,
\* null and undefined.
PathRoots == {Ref("R1"), Ref("R2"), Num(5), Null, Undefined}

\* Nothing is bound or scheduled.
NoPage ==
    /\ OBS = [o \in {} |-> << >>]
    /\ calls = << >>
    /\ unsubCalled = {}
    /\ updateQueue = << >>
    /\ isUpdateScheduled = FALSE
    /\ scheduledFlushes = 0
    /\ schedCount = [c \in UserCbNames |-> 0]
    /\ ran = << >>
    /\ textContent = [e \in {} |-> << >>]
    /\ dataBind = [e \in {} |-> << >>]
    /\ scopeIdAttr = [e \in {} |-> << >>]
    /\ scopeRegistry = [i \in {} |-> ""]
    /\ scopeCounter = 0
    /\ elementObservers = [e \in {} |-> << >>]
    /\ tapInstalled = {}
    /\ observerStarted = FALSE
    /\ fnCounter = 0
    /\ childNodes = [e \in {} |-> << >>]
    /\ dataTap = [e \in {} |-> << >>]
    /\ elAttr = [a \in {} |-> << >>]
    /\ warnings = << >>
    /\ elValue = [e \in {} |-> << >>]
    /\ clickListeners = [e \in {} |-> 0]
    /\ inputListeners = << >>
    /\ mutations = << >>
    /\ listBinders = << >>
    /\ nodeCounter = 0
    /\ cleaned = << >>
    /\ removedElems = {}
    /\ dispatched = << >>
    /\ fired = << >>

\* The arguments of a call that is about to be made: the root in value,
\* the path in key.
PathInit ==
    /\ obj = [o \in {"R1", "A1", "B1", "R2", "A2"} |->
                CASE o = "R1" -> (<< "a" >> :> Ref("A1"))
                  [] o = "A1" -> (<< "b" >> :> Ref("B1")) @@ (<< "x" >> :> Null)
                  [] o = "B1" -> (<< "c" >> :> Num(5))
                  [] o = "R2" -> (<< "a" >> :> Ref("A2"))
                  [] OTHER    -> [k \in {} |-> Undefined]]
    /\ NoPage
    /\ \E root \in PathRoots : \E path \in Paths :
          last = Op("call", "", path, NoFn, root, Undefined, FALSE)

\* The call returns: the operation records the result in value and the
\* root in old.
PathResolve ==
    /\ last.op = "call"
    /\ last' = Op("resolvePath", "", last.key, NoFn,
                  ResolvePath(obj, last.value, last.key), last.value, FALSE)
    /\ UNCHANGED << progVars, calls, unsubCalled, schedCount, ran, cleaned,
                    removedElems, dispatched, fired >>

PathNext == PathResolve

PathSpec == PathInit /\ [][PathNext]_vars

(***************************************************************************)
(* Claims about the path resolver (PathSpec).                              *)
(***************************************************************************)

\* The segments of the path: its maximal runs of characters other than the
\* dot, from left to right.
SegmentStarts(path) ==
    {i \in 1..Len(path) : path[i] /= "." /\ (i = 1 \/ path[i - 1] = ".")}

SegmentAt(path, i) ==
    LET j == CHOOSE j \in i..Len(path) :
                 /\ \A m \in i..j : path[m] /= "."
                 /\ (j = Len(path) \/ path[j + 1] = ".")
    IN  SubSeq(path, i, j)

\* The reference resolver: the value after the first n segments.
RECURSIVE Reference(_, _, _, _)
Reference(H, root, path, n) ==
    IF n = 0 THEN root
    ELSE LET starts == SegmentStarts(path)
             i      == CHOOSE i \in starts : Cardinality({m \in starts : m < i}) = n - 1
             before == Reference(H, root, path, n - 1)
         IN  IF before \in {Null, Undefined} THEN Undefined
             ELSE GetProp(H, before, SegmentAt(path, i))

\* C26: resolvePath(root, path) is the value of the reference resolver:
\* the segments between dots, empty ones ignored, applied from left to
\* right, undefined once a value before the last is null or undefined;
\* it never throws; {a:{b:{c:5}}} with "a.b.c" gives 5 and {a:{}} with
\* "a.x.y" gives undefined.
C26_ResolvePathIsReference ==
    last.op = "resolvePath" =>
        /\ last.value = Reference(obj, last.old, last.key,
                                  Cardinality(SegmentStarts(last.key)))
        /\ last.value /= TypeError
        /\ (last.old = Ref("R1") /\ last.key = << "a", ".", "b", ".", "c" >>)
              => last.value = Num(5)
        /\ (last.old = Ref("R2") /\ last.key = << "a", ".", "x", ".", "y" >>)
              => last.value = Undefined

\* {a:{}} with "a.x.y": the value of a.x is undefined and a segment follows.
C26_Witness ==
    /\ last.op = "resolvePath"
    /\ last.old = Ref("R2")
    /\ last.key = << "a", ".", "x", ".", "y" >>
    /\ last.value = Undefined


(***************************************************************************)
(* The attribute parser as a function: one call parseBinds(str), for every *)
(* string up to a length and for the strings of the documentation.         *)
(***************************************************************************)

MaxAttrLen == 6

\* The characters of the strings: two letters, the separators, a blank.
AttrChars == {"a", "b", ":", ",", " "}

NameArg == << "n", "a", "m", "e" >>
AttrTextName == TextCmd \o << ":" >> \o NameArg
AttrCmdName == << "a", "t", "t", "r" >>
TitleUserName == << "t", "i", "t", "l", "e", ":", "u", "s", "e", "r", ".", "n", "a", "m", "e" >>
AttrTitleUserName == AttrCmdName \o << ":" >> \o TitleUserName

\* The attribute values of the calls.
AttrStrings ==
    Strings(AttrChars, MaxAttrLen) \cup {AttrTextName, NameArg, AttrTitleUserName}

\* The argument of a call that is about to be made, in key.
ParseInit ==
    /\ obj = [o \in {} |-> << >>]
    /\ NoPage
    /\ \E str \in AttrStrings :
          last = Op("call", "", str, NoFn, Undefined, Undefined, FALSE)

\* The call returns: the operation records the tokens in value.
ParseCall ==
    /\ last.op = "call"
    /\ last' = Op("parseBinds", "", last.key, NoFn, Arr(0, ParseBinds(last.key)),
                  Undefined, FALSE)
    /\ UNCHANGED << progVars, calls, unsubCalled, schedCount, ran, cleaned,
                    removedElems, dispatched, fired >>

ParseNext == ParseCall

ParseSpec == ParseInit /\ [][ParseNext]_vars

(***************************************************************************)
(* Claims about the attribute parser (ParseSpec).                          *)
(***************************************************************************)

\* The positions of the separator in the string, and the pieces between
\* them, from left to right: piece n lies after the (n-1)th separator.
Positions(str, sep) == {i \in 1..Len(str) : str[i] = sep}

Piece(str, sep, n) ==
    LET at    == Positions(str, sep) \cup {0, Len(str) + 1}
        from  == CHOOSE i \in at : Cardinality({m \in at : m < i}) = n - 1
        until == CHOOSE i \in at : Cardinality({m \in at : m < i}) = n
    IN  SubSeq(str, from + 1, until - 1)

Pieces(str, sep) == [n \in 1..(Cardinality(Positions(str, sep)) + 1) |-> Piece(str, sep, n)]

\* The string from and after the first occurrence of the separator.
BeforeFirst(str, sep) ==
    SubSeq(str, 1, (CHOOSE i \in Positions(str, sep) :
                        \A m \in Positions(str, sep) : i <= m) - 1)
AfterFirst(str, sep) ==
    SubSeq(str, (CHOOSE i \in Positions(str, sep) :
                     \A m \in Positions(str, sep) : i <= m) + 1, Len(str))

\* The token split on its first colon only, the rest verbatim.
VerbatimToken(tok) ==
    IF Positions(tok, ":") = {} THEN [cmd |-> TextCmd, arg |-> tok]
    ELSE [cmd |-> BeforeFirst(tok, ":"), arg |-> AfterFirst(tok, ":")]

\* C27 as stated: the result has one {command, argument} per token between
\* commas, in written order; a token is split on its first colon only and
\* what follows the colon is the argument, verbatim; a token without colon
\* t gives {text, t}.
C27_AsStated ==
    last.op = "parseBinds" =>
        last.value.s = MapSeq(Pieces(last.key, ","), VerbatimToken)

\* The characters of the string that are not white space, or that have,
\* between the separators next to them, a character that is not white
\* space on either side.
Inner(str, sep) ==
    LET solid(i) == str[i] \notin WhiteSpace /\ str[i] /= sep
        joined(i, j) == \A m \in i..j : str[m] /= sep
    IN  {i \in 1..Len(str) :
            \/ str[i] \notin WhiteSpace
            \/ /\ \E j \in 1..(i - 1) : solid(j) /\ joined(j, i)
               /\ \E j \in (i + 1)..Len(str) : solid(j) /\ joined(i, j)}

\* The string without the white space at its ends and around its
\* separators.
Tight(str, sep) ==
    LET keep == Inner(str, sep)
    IN  [n \in 1..Cardinality(keep) |->
            str[CHOOSE i \in keep : Cardinality({m \in keep : m < i}) = n - 1]]

\* The token split on its first colon, with the white space around colons
\* and at the ends removed.
TightToken(tok) ==
    IF Positions(tok, ":") = {} THEN [cmd |-> TextCmd, arg |-> Tight(tok, ":")]
    ELSE [cmd |-> Tight(BeforeFirst(tok, ":"), ":"), arg |-> Tight(AfterFirst(tok, ":"), ":")]

\* C27, amended: the result has one {command, argument} per token between
\* commas that is not empty or white space only, in written order; a token
\* is split on its first colon, the command and the argument are what
\* precedes and follows it without the white space at their ends and
\* around the argument's further colons; a token without colon t gives
\* {text, t without the white space at its ends}; "text:name", "name" and
\* "attr:title:user.name" give {text, "name"}, {text, "name"} and
\* {attr, "title:user.name"}.
C27_TokensSplitOnFirstColonTrimmed ==
    last.op = "parseBinds" =>
        /\ last.value.s =
              MapSeq(SelectSeq(Pieces(last.key, ","),
                               LAMBDA tok : \E i \in 1..Len(tok) : tok[i] \notin WhiteSpace),
                     TightToken)
        /\ last.key \in {AttrTextName, NameArg}
              => last.value.s = << [cmd |-> TextCmd, arg |-> NameArg] >>
        /\ last.key = AttrTitleUserName
              => last.value.s = << [cmd |-> AttrCmdName, arg |-> TitleUserName] >>

\* "attr:title:user.name" has been parsed: the argument holds a colon.
C27_Witness ==
    /\ last.op = "parseBinds"
    /\ last.key = AttrTitleUserName
    /\ last.value.s = << [cmd |-> AttrCmdName, arg |-> TitleUserName] >>


(***************************************************************************)
(* Nested records: the records A = {p, q}, B = {p} and C = {p}, whose      *)
(* fields application code assigns directly or, on an observable record,   *)
(* through $set, and which it hands to px64.observable in any order.  The  *)
(* records form chains, branches and cycles.                               *)
(***************************************************************************)

NestObjs == {"A", "B", "C"}
NestKeys(o) == IF o = "A" THEN {<< "p" >>, << "q" >>} ELSE {<< "p" >>}
NestVals == {Undefined} \cup {Ref(o) : o \in NestObjs}

NestInit ==
    /\ obj = [o \in NestObjs |-> [k \in NestKeys(o) |-> Undefined]]
    /\ NoPage
    /\ last = NoOp

\* Application code assigns o[k] = v.
NestAssign ==
    \E o \in NestObjs : \E k \in NestKeys(o) : \E v \in NestVals :
        /\ obj' = [obj EXCEPT ![o][k] = v]
        /\ last' = Op("assign", o, << >>, NoFn, Undefined, Undefined, FALSE)
        /\ UNCHANGED << OBS, schedVars, domVars, calls, unsubCalled, cleaned,
                        removedElems, dispatched, fired >>

\* Application code calls o.$set(k, v) on an observable record.
NestSet ==
    \E o \in DOMAIN OBS : \E k \in NestKeys(o) : \E v \in NestVals :
    \E st \in {SetIn(Handler, o, k, v)} :
        /\ Finish(st, Op("set", o, << >>, NoFn, Undefined, Undefined, FALSE))
        /\ calls' = << >>
        /\ ran' = << >>
        /\ UNCHANGED << unsubCalled, schedCount, fired >>

\* Application code calls px64.observable(o).  The operation records how
\* many records were observable before the call.
NestObservable ==
    \E o \in NestObjs :
        /\ OBS' = Observable(OBS, obj, o)
        /\ last' = Op("observable", o, << >>, NoFn, Undefined,
                      Num(Cardinality(DOMAIN OBS)), FALSE)
        /\ UNCHANGED << obj, schedVars, domVars, calls, unsubCalled, cleaned,
                        removedElems, dispatched, fired >>

NestNext ==
    \/ NestAssign
    \/ NestSet
    \/ NestObservable

NestSpec == NestInit /\ [][NestNext]_vars

(***************************************************************************)
(* Claims about nested records (NestSpec).                                 *)
(***************************************************************************)

\* The record y is the value of a field of the record x.
FieldOf(H, x, y) == \E k \in DOMAIN H[x] : H[x][k] = Ref(y)

\* The records nested in o, o included: those a chain of fields leads to
\* from o, every record of the chain before the last being in via.
NestedVia(H, o, via) ==
    {x \in DOMAIN H :
        \E n \in 1..Cardinality(DOMAIN H) : \E chain \in [1..n -> DOMAIN H] :
            /\ chain[1] = o
            /\ chain[n] = x
            /\ \A i \in 1..(n - 1) : chain[i] \in via /\ FieldOf(H, chain[i], chain[i + 1])}

\* C28 as stated: observable(o) upgrades exactly the plain records nested
\* in o at the time of the call, and neither $set nor an assignment
\* upgrades a record.
C28_AsStated ==
    [][ /\ last'.op = "observable" =>
              \E o \in {last'.o} :
                  DOMAIN OBS' = DOMAIN OBS \cup NestedVia(obj, o, DOMAIN obj)
        /\ last'.op \in {"set", "assign"} => DOMAIN OBS' = DOMAIN OBS ]_vars

\* C28, amended: observable(o) on a record that is already observable
\* upgrades nothing; on a plain record it upgrades exactly the plain
\* records nested in o at the time of the call that a chain of plain
\* records leads to (it terminates on cycles), and leaves the fields as
\* they are; neither $set nor an assignment upgrades a record.
C28_UpgradesPlainRecordsReachedThroughPlainOnes ==
    [][ /\ last'.op = "observable" =>
              \E o \in {last'.o} :
                  /\ DOMAIN OBS' =
                        DOMAIN OBS \cup
                        (IF o \in DOMAIN OBS THEN {}
                         ELSE NestedVia(obj, o, DOMAIN obj \ DOMAIN OBS) \ DOMAIN OBS)
                  /\ obj' = obj
        /\ last'.op \in {"set", "assign"} => DOMAIN OBS' = DOMAIN OBS ]_vars

\* observable(A) has upgraded the cycle A.p = B, B.p = A: no record was
\* observable before the call, and C, which is not nested in A, is plain.
C28_Witness ==
    /\ last.op = "observable"
    /\ last.o = "A"
    /\ last.old = Num(0)
    /\ obj["A"][<< "p" >>] = Ref("B")
    /\ obj["B"][<< "p" >>] = Ref("A")
    /\ DOMAIN OBS = {"A", "B"}

(***************************************************************************)
(* Claims about the arming of the flush (SchedSpec).                       *)
(***************************************************************************)

\* At most one flush is scheduled, the flag tells whether one is, and
\* pending callbacks imply an armed flush.
OneFlushArmed ==
    /\ scheduledFlushes <= 1
    /\ isUpdateScheduled <=> scheduledFlushes = 1
    /\ updateQueue /= << >> => isUpdateScheduled

\* C29: at any time at most one flush is armed: a callback accepted while a
\* flush is armed or running arms no second one, pending callbacks imply an
\* armed flush, a completed flush leaves the flag reset and no flush
\* scheduled, and the next accepted callback then arms exactly one.
C29_AtMostOneFlushArmed ==
    /\ []OneFlushArmed
    /\ [][ /\ last'.op = "flush" =>
                 ~isUpdateScheduled' /\ scheduledFlushes' = 0 /\ updateQueue' = << >>
           /\ last'.op = "batchUpdate" =>
                 /\ isUpdateScheduled' /\ scheduledFlushes' = 1
                 /\ isUpdateScheduled => scheduledFlushes' = scheduledFlushes ]_vars

\* A flush has run c4, which called batchUpdate for c1 and c2 while the
\* flush was running, and has run them; no flush is armed after it.
C29_Witness ==
    /\ last.op = "flush"
    /\ [i \in 1..Len(ran) |-> ran[i].cb.name] = << "c4", "c1", "c2" >>
    /\ ~isUpdateScheduled
    /\ scheduledFlushes = 0


(***************************************************************************)
(* Claims about the execution of accepted callbacks (SchedLiveSpec).       *)
(***************************************************************************)

\* A flush has completed and has executed the callback c.
ExecutedAtFlush(c) ==
    /\ last.op = "flush"
    /\ \E i \in 1..Len(ran) : ran[i].cb = UserCb(c)

\* The callbacks that the callbacks of the flush handed to batchUpdate
\* while the flush was running.
AcceptedWhileRunning ==
    UNION {Range(Reschedules(ran[i].cb.name)) : i \in 1..Len(ran)}

EnclosingView == [e \in {"y", "w"} |-> IF e = "y" THEN "v" ELSE "y"]

\* C31 as stated: in one bind pass no token of an element is dispatched
\* twice, and an element below a view element is dispatched against the
\* nested scope of that view only, also when the walk starts on the view
\* element (bind(v, S)).
C31_AsStated ==
    last.op = "bind" =>
        /\ \A i, j \in 1..Len(dispatched) :
              (/\ dispatched[i].el = dispatched[j].el
               /\ dispatched[i].cmd = dispatched[j].cmd
               /\ dispatched[i].arg = dispatched[j].arg) => i = j
        /\ \A i \in 1..Len(dispatched) :
              dispatched[i].el \in DOMAIN EnclosingView =>
                  dispatched[i].scope = ViewScopes[EnclosingView[dispatched[i].el]]

----------------------------------------------------------------------------
(* A page for the binders that split their argument at the colons: body    *)
(* holds one element e whose data-bind is one token of the ternary, style, *)
(* attr or class binder with one to four parts; S = { flag: 1, tint: 'r' }.*)

MaxArityBinds == 2

FlagKey == << "f", "l", "a", "g" >>
TintKey == << "t", "i", "n", "t" >>

\* The number of parts each binder's argument is documented with.
ArityCmds == {TernaryCmd, StyleCmd, AttrCmd, ClassCmd}
ExpectedParts(cmd) == IF cmd = TernaryCmd THEN 3 ELSE 2

\* The arguments the page is written with: the documented one, the ones
\* with parts missing, and the one with a part too many.
ArityArgs(cmd) ==
    LET parts == CASE cmd = TernaryCmd -> << FlagKey, << "y" >>, << "n" >>, << "x" >> >>
                   [] cmd = ClassCmd   -> << << "o", "n" >>, FlagKey, << "x" >> >>
                   [] cmd = AttrCmd    -> << << "t", "i", "t", "l", "e" >>, TintKey,
                                             << "x" >> >>
                   [] OTHER            -> << << "c", "o", "l", "o", "r" >>, TintKey,
                                             << "x" >> >>
    IN  {Join(SubSeq(parts, 1, n), ":") : n \in 1..Len(parts)}

ArityAttrs ==
    UNION {{cmd \o << ":" >> \o arg : arg \in ArityArgs(cmd)} : cmd \in ArityCmds}

ArityVals(k) == IF k = FlagKey THEN {Num(0), Num(1)} ELSE {Str(<< "r" >>), Str(<< "g" >>)}

ArityInit ==
    /\ obj = [o \in {"S"} |-> (FlagKey :> Num(1)) @@ (TintKey :> Str(<< "r" >>))]
    /\ OBS = [o \in {} |-> << >>]
    /\ calls = << >>
    /\ unsubCalled = {}
    /\ updateQueue = << >>
    /\ isUpdateScheduled = FALSE
    /\ scheduledFlushes = 0
    /\ schedCount = [c \in UserCbNames |-> 0]
    /\ ran = << >>
    /\ textContent = [e \in {Body, "e"} |-> << >>]
    /\ dataBind \in [{"e"} -> ArityAttrs]
    /\ scopeIdAttr = [e \in {} |-> << >>]
    /\ scopeRegistry = [i \in {} |-> Undefined]
    /\ scopeCounter = 0
    /\ elementObservers = [e \in {} |-> << >>]
    /\ tapInstalled = {}
    /\ observerStarted = FALSE
    /\ fnCounter = 0
    /\ childNodes = [e \in {Body, "e"} |-> IF e = Body THEN << "e" >> ELSE << >>]
    /\ dataTap = [e \in {} |-> << >>]
    /\ elAttr = [a \in {} |-> << >>]
    /\ warnings = << >>
    /\ elValue = [e \in {} |-> << >>]
    /\ clickListeners = [e \in {} |-> 0]
    /\ inputListeners = << >>
    /\ mutations = << >>
    /\ listBinders = << >>
    /\ nodeCounter = 0
    /\ cleaned = << >>
    /\ removedElems = {}
    /\ dispatched = << >>
    /\ fired = << >>
    /\ last = NoOp

\* Application code calls px64.bind(e, S), at most MaxArityBinds times.
ArityBind ==
    /\ Len(warnings) < MaxArityBinds
    /\ Bind("e", "S")
    /\ fnCounter' <= MaxArityBinds
    /\ calls' = << >>
    /\ ran' = << >>
    /\ fired' = << >>
    /\ UNCHANGED << unsubCalled, schedCount >>

\* Application code calls S.$set(k, v) on the observable record while at
\* most one callback is pending.
AritySet ==
    \E k \in {FlagKey, TintKey} : \E v \in ArityVals(k) :
        /\ "S" \in DOMAIN OBS
        /\ Len(updateQueue) <= 1
        /\ Set("S", k, v)
        /\ ran' = << >>
        /\ fired' = << >>
        /\ UNCHANGED << unsubCalled, schedCount, cleaned, removedElems, dispatched >>

\* The host runs the armed flush.
ArityFlush ==
    /\ Flush
    /\ calls' = << >>
    /\ fired' = << >>
    /\ UNCHANGED << unsubCalled, schedCount >>

ArityNext ==
    \/ ArityBind
    \/ AritySet
    \/ ArityFlush

AritySpec == ArityInit /\ [][ArityNext]_vars

\* The token of e and the number of parts of its argument.
ArityToken == ParseBinds(dataBind["e"])[1]
ArityParts == Len(Split(ArityToken.arg, ":"))
WrongArity == ArityParts /= ExpectedParts(ArityToken.cmd)

\* No listener is registered on S and no cleanup closure for e.
NoObserver ==
    /\ "S" \in DOMAIN OBS => \A k \in DOMAIN OBS["S"] : OBS["S"][k] = << >>
    /\ "e" \in DOMAIN elementObservers => elementObservers["e"] = << >>

\* C32 as stated: when the argument of e's token has another number of
\* parts than its binder expects, bind returns normally and logs a warning,
\* and at no time is the element written to, a callback queued, a field of
\* S changed by the binder, or an observer registered.
C32_AsStated ==
    WrongArity =>
        /\ last.op = "bind" => ~last.threw /\ warnings /= << >>
        /\ DOMAIN elAttr = {} /\ textContent["e"] = << >>
        /\ NoObserver

----------------------------------------------------------------------------
(* Upgrading: the records A = { count: 5, child: B } and B = { count: 5 }, *)
(* which application code hands to px64.observable, together with values   *)
(* that are not plain records, and on which it registers listeners and     *)
(* calls $set once they are observable.                                    *)

ChildKey == << "c", "h", "i", "l", "d" >>

UpgradeObjs == {"A", "B"}

\* The arguments of px64.observable: the records, an array, primitives,
\* null and undefined.
UpgradeInputs ==
    {Ref(o) : o \in UpgradeObjs}
        \cup {Arr(1, << >>), Num(5), Str(<< "s" >>), Null, Undefined}

\* isObj(v): v && typeof v === 'object' && !Array.isArray(v)
IsObj(v) == ~Falsy(v) /\ v.t = "object"

\* observable(v) for any value v: the value returned and the listener Maps.
ObservableCall(O, H, v) ==
    [ret |-> v, OBS |-> IF IsObj(v) THEN Observable(O, H, v.o) ELSE O]

UpgradeInit ==
    /\ obj = [o \in UpgradeObjs |->
                IF o = "A" THEN (CountKey :> Num(5)) @@ (ChildKey :> Ref("B"))
                ELSE (CountKey :> Num(5))]
    /\ NoPage
    /\ last = NoOp

\* Application code calls px64.observable(v); the operation records the
\* argument and the value returned.
UpgradeObservable ==
    \E v \in UpgradeInputs : \E r \in {ObservableCall(OBS, obj, v)} :
        /\ OBS' = r.OBS
        /\ last' = Op("observable", v.o, << >>, NoFn, r.ret, v, FALSE)
        /\ calls' = << >>
        /\ UNCHANGED << obj, unsubCalled, schedVars, domVars >>

\* Application code calls o.$observe(prop, fn) on an observable record.
UpgradeObserve ==
    \E o \in DOMAIN OBS, prop \in ObserveArgs, fn \in HeldFns :
        /\ Observe(o, prop, fn)
        /\ calls' = << >>
        /\ UNCHANGED << obj, unsubCalled, schedVars, domVars >>

\* Application code calls o.$set('count', v) on an observable record.
UpgradeSet ==
    \E o \in DOMAIN OBS, value \in StoreVals :
        /\ Set(o, CountKey, value)
        /\ UNCHANGED << unsubCalled, schedCount, ran, cleaned, removedElems,
                        dispatched, fired >>

UpgradeNext ==
    \/ UpgradeObservable
    \/ UpgradeObserve
    \/ UpgradeSet

UpgradeSpec == UpgradeInit /\ [][UpgradeNext]_vars

\* C33: px64.observable(v) returns v itself and changes no field of any
\* record; when v is a record that is observable already, or is not a plain
\* record at all (an array, a primitive, null), no listener Map changes, so
\* every registered listener stays registered; when v is a plain record it
\* is observable afterwards, and the listeners of the records that were
\* observable before stay as they were.
C33_ObservableIdempotentInPlace ==
    [][ last'.op = "observable" =>
          /\ last'.value = last'.old
          /\ obj' = obj
          /\ (~IsObj(last'.old) \/ last'.old.o \in DOMAIN OBS) => OBS' = OBS
          /\ IsObj(last'.old) =>
                /\ last'.old.o \in DOMAIN OBS'
                /\ \A o \in DOMAIN OBS : OBS'[o] = OBS[o] ]_vars

\* observable(A) has been called on a record A that has listeners (which
\* it got after an earlier observable(A)), and they are still registered.
C33_Witness ==
    /\ last.op = "observable"
    /\ last.o = "A"
    /\ last.value = Ref("A")
    /\ OBS["A"][CountKey] = << UserFn("f1"), UserFn("f2") >>
    /\ OBS["A"][Star] = << UserFn("f2") >>

(***************************************************************************)
(* A table bound to a listState.  The page is                              *)
(*   body > table#t[table:list][data-meta="cols:a,b"]                      *)
(* with S = {list: L} and L = listState of none, two or three of the rows  *)
(* R1 = {a: 2, b: 1}, R2 = {a: 1, b: 3}, R3 = {a: 3, b: 2}, pageSize 2.    *)
(* The application binds the table once and calls setItems, nextPage and   *)
(* prevPage; the user clicks the cells of the table.                       *)
(***************************************************************************)

ColA == << "a" >>
ColB == << "b" >>
SortByKey == << "s", "o", "r", "t", "B", "y" >>

\* The arrays the application passes to setItems.
TableRows == {<< "R1", "R2", "R3" >>, << "R3", "R1", "R2" >>, << "R2", "R1" >>, << >>}

TableInit ==
    /\ obj = [o \in {"S", "L", "R1", "R2", "R3"} |->
                CASE o = "S"  -> (ListKey :> Ref("L"))
                  [] o = "L"  -> (ItemsKey :> Arr(1, << "R1", "R2", "R3" >>))
                                   @@ (PageKey :> Num(1)) @@ (PageSizeKey :> Num(2))
                                   @@ (SortKeyKey :> Null) @@ (SortDirKey :> Str(Asc))
                                   @@ (TotalKey :> Num(3)) @@ (PagedKey :> Fn("paged"))
                                   @@ (SortByKey :> Fn("sortBy"))
                  [] o = "R1" -> (ColA :> Num(2)) @@ (ColB :> Num(1))
                  [] o = "R2" -> (ColA :> Num(1)) @@ (ColB :> Num(3))
                  [] OTHER    -> (ColA :> Num(3)) @@ (ColB :> Num(2))]
    /\ OBS = [o \in {"L"} |-> [p \in Props |-> << >>]]
    /\ calls = << >>
    /\ unsubCalled = {}
    /\ updateQueue = << >>
    /\ isUpdateScheduled = FALSE
    /\ scheduledFlushes = 0
    /\ schedCount = [c \in UserCbNames |-> 0]
    /\ ran = << >>
    /\ textContent = [e \in {Body, "t"} |-> << >>]
    /\ dataBind = [e \in {"t"} |-> TableCmd \o << ":" >> \o ListKey]
    /\ scopeIdAttr = [e \in {} |-> << >>]
    /\ scopeRegistry = [i \in {} |-> Undefined]
    /\ scopeCounter = 0
    /\ elementObservers = [e \in {} |-> << >>]
    /\ tapInstalled = {}
    /\ observerStarted = FALSE
    /\ fnCounter = 0
    /\ childNodes = [e \in {Body, "t"} |-> IF e = Body THEN << "t" >> ELSE << >>]
    /\ dataTap = [e \in {} |-> << >>]
    /\ elAttr = [a \in {<< "t", "attr", DataMeta >>} |->
                   ColsName \o << ":" >> \o ColA \o << ",", " " >> \o ColB]
    /\ warnings = << >>
    /\ elValue = [e \in {} |-> << >>]
    /\ clickListeners = [e \in {} |-> 0]
    /\ inputListeners = << >>
    /\ mutations = << >>
    /\ listBinders = << >>
    /\ nodeCounter = 0
    /\ cleaned = << >>
    /\ removedElems = {}
    /\ dispatched = << >>
    /\ fired = << >>
    /\ last = NoOp

\* The th elements: the ones renderHead has created, each with a
\* dataset.sortKey.
ThElems(st) == {a[1] : a \in {a \in DOMAIN st.attr : a[2] = "data"}}

\* The click listener of the table binder that always sorts ascending.
TableListenerAlwaysAsc(st, inst, target) ==
    With(FirstIn(PathUp(st.kids, target), ThElems(st)),
         LAMBDA th :
             IF th = NoElem \/ Falsy(GetProp(st.obj, st.lists[inst].state, SortByKey))
             THEN st
             ELSE [SortBy(st, st.lists[inst].state.o,
                          st.attr[<< th, "data", SortKeyKey >>], Asc)
                   EXCEPT !.threw = FALSE])

\* The click listener of the table binder call inst, for a click with
\* event target target:
\*   th = e.target.closest('th'); if (!th) return; k = th.dataset.sortKey
\*   dir = (state.sortKey === k && state.sortDir === 'asc') ? 'desc' : 'asc'
\*   state.sortBy && state.sortBy(k, dir)
TableListener(st, inst, target) ==
    With(FirstIn(PathUp(st.kids, target), ThElems(st)),
         LAMBDA th :
             IF th = NoElem \/ Falsy(GetProp(st.obj, st.lists[inst].state, SortByKey))
             THEN st
             ELSE With(st.attr[<< th, "data", SortKeyKey >>],
                       LAMBDA k :
                           [SortBy(st, st.lists[inst].state.o, k,
                                   IF /\ GetProp(st.obj, st.lists[inst].state,
                                                 SortKeyKey) = Str(k)
                                      /\ GetProp(st.obj, st.lists[inst].state,
                                                 SortDirKey) = Str(Asc)
                                   THEN Desc ELSE Asc)
                            EXCEPT !.threw = FALSE]))

\* The click listeners that table binders added to the element el, in the
\* order they were added.
RECURSIVE TableListeners(_, _, _, _)
TableListeners(st, el, target, inst) ==
    IF inst > Len(st.lists) THEN st
    ELSE With(IF st.lists[inst].el = el /\ st.lists[inst].click
              THEN TableListener(st, inst, target) ELSE st,
              LAMBDA s : TableListeners(s, el, target, inst + 1))

\* The click on e bubbles along path: at every element, the listeners of
\* the table binders and then the delegated listeners run.
RECURSIVE TableBubble(_, _, _, _)
TableBubble(st, e, path, i) ==
    IF i > Len(path) THEN st
    ELSE With(TableListeners(st, path[i], e, 1),
              LAMBDA s1 :
         With(TapListeners(s1, e, IF path[i] \in DOMAIN s1.clk THEN s1.clk[path[i]] ELSE 0),
              LAMBDA s2 : TableBubble(s2, e, path, i + 1)))

\* Application code calls px64.bind(t, S), once.
TableBind ==
    /\ listBinders = << >>
    /\ Bind("t", "S")
    /\ calls' = << >>
    /\ ran' = << >>
    /\ fired' = << >>
    /\ UNCHANGED << unsubCalled, schedCount >>

\* The end of a call of a method of L.
TableCall(st, name, arg) ==
    /\ Finish(st, Op(name, "L", << >>, NoFn, arg, Undefined, st.threw))
    /\ calls' = << >>
    /\ ran' = << >>
    /\ fired' = << >>
    /\ UNCHANGED << unsubCalled, schedCount >>

\* Application code calls L.setItems(rows).
TableSetItems ==
    \E rows \in TableRows :
    \E st \in {SetItems(Handler, "L", rows, 3 - obj["L"][ItemsKey].n)} :
        TableCall(st, "setItems", Arr(0, rows))

\* Application code calls L.nextPage() or L.prevPage().
TableNextPage ==
    \E st \in {NextPage(Handler, "L")} : TableCall(st, "nextPage", Undefined)

TablePrevPage ==
    \E st \in {PrevPage(Handler, "L")} : TableCall(st, "prevPage", Undefined)

\* The user clicks the table or an element in it.
TableClick ==
    \E e \in {"t"} \cup Descendants(childNodes, "t") :
    \E st \in {TableBubble(Handler, e, PathUp(childNodes, e), 1)} :
        /\ Finish(st, Op("click", "", << >>, NoFn, ElemVal(e), Undefined, FALSE))
        /\ fired' = st.fired
        /\ calls' = << >>
        /\ ran' = << >>
        /\ UNCHANGED << unsubCalled, schedCount >>

TableNext ==
    \/ TableBind
    \/ TableSetItems
    \/ TableNextPage
    \/ TablePrevPage
    \/ TableClick

TableSpec == TableInit /\ [][TableNext]_vars

(* Claims about the table (TableSpec). *)

\* The rows of L, and the rows that come before row r when the rows are put
\* in order: by column k in direction dir (the columns hold distinct
\* numbers), or, without a sort key, as they stand in items.
TableItems == obj["L"][ItemsKey].s
Before(r) ==
    LET k   == obj["L"][SortKeyKey]
        pos == CHOOSE i \in 1..Len(TableItems) : TableItems[i] = r
    IN  IF k = Null THEN {TableItems[i] : i \in 1..(pos - 1)}
        ELSE {q \in Range(TableItems) :
                IF obj["L"][SortDirKey] = Str(Desc)
                THEN obj[q][k.s].n > obj[r][k.s].n
                ELSE obj[q][k.s].n < obj[r][k.s].n}

\* The rows whose place in that order falls on the current page.
OnPage(r) ==
    LET first == (obj["L"][PageKey].n - 1) * obj["L"][PageSizeKey].n
    IN  first <= Cardinality(Before(r)) /\ Cardinality(Before(r)) < first + obj["L"][PageSizeKey].n

\* The table body shows exactly the rows of the current page, each at its
\* place in the order, with the cells a and b.
BodyShowsPage ==
    /\ TBody("t") \in DOMAIN childNodes
    /\ Len(childNodes[TBody("t")]) = Cardinality({r \in Range(TableItems) : OnPage(r)})
    /\ \A r \in Range(TableItems) :
          OnPage(r) =>
              LET i == Cardinality(Before(r))
                         - (obj["L"][PageKey].n - 1) * obj["L"][PageSizeKey].n + 1
              IN  /\ childNodes[TBody("t")][i] = Tr("t", i)
                  /\ childNodes[Tr("t", i)] = << Td("t", i, 1), Td("t", i, 2) >>
                  /\ textContent[Td("t", i, 1)] = Numeral(obj[r][ColA].n)
                  /\ textContent[Td("t", i, 2)] = Numeral(obj[r][ColB].n)

\* The column of the header cell that the last click hit, or << >>.
ClickedColumn ==
    IF last.op = "click" /\ << last.value.o, "data", SortKeyKey >> \in DOMAIN elAttr
    THEN elAttr[<< last.value.o, "data", SortKeyKey >>]
    ELSE << >>

\* C34: a click on the header cell of column k makes k the sort key; the
\* direction becomes descending when k was the sort key with direction
\* ascending, and ascending otherwise; and after the click the body shows
\* the rows of the current page in that order.
C34_HeaderClickTogglesSort ==
    [][ \E k \in {ClickedColumn'} :
          k /= << >> =>
              /\ obj'["L"][SortKeyKey] = Str(k)
              /\ obj'["L"][SortDirKey] =
                    (IF obj["L"][SortKeyKey] = Str(k) /\ obj["L"][SortDirKey] = Str(Asc)
                     THEN Str(Desc) ELSE Str(Asc))
              /\ BodyShowsPage' ]_vars

\* The header of column a has been clicked while a was the sort key: the
\* direction is descending and the first page shows R3 and R1.
C34_Witness ==
    /\ ClickedColumn = ColA
    /\ obj["L"][SortDirKey] = Str(Desc)
    /\ obj["L"][ItemsKey].s = << "R1", "R2", "R3" >>
    /\ obj["L"][PageKey] = Num(1)
    /\ textContent[Td("t", 1, 1)] = << "3" >>
    /\ textContent[Td("t", 2, 1)] = << "2" >>

(* Further claims about incremental rendering (ChunkSpec). *)

\* No flush is armed and no chunk is scheduled.
ChunkQuiescent ==
    /\ listBinders /= << >>
    /\ last.op \in {"flush", "idle"}
    /\ updateQueue = << >>
    /\ scheduledFlushes = 0
    /\ listBinders[1].idle = << >>

\* C35 as stated: once the scheduler and the idle callbacks are quiescent,
\* the container holds exactly the rows of the latest visible slice, each
\* once and in order, also when the list changed while chunks of an
\* incremental render were pending.
C35_AsStated == ChunkQuiescent => HoldsRows(obj["B"][ItemsKey].s)

\* C36 as stated: after a flush, the row rendered for the first item r1,
\* which is the first node of the container in every render, shows the
\* count of r1, whether a full render or the first chunk of an incremental
\* render made it.
C36_AsStated ==
    (last.op = "flush" /\ nodeCounter > 0 /\ childNodes["ul"] /= << >>)
        => textContent[childNodes["ul"][1]] = ToStr(obj["r1"][CountKey])

(* The page number of the listState (TableSpec). *)

\* Math.ceil(total / pageSize)
PageCount == (obj["L"][TotalKey].n + obj["L"][PageSizeKey].n - 1) \div obj["L"][PageSizeKey].n

\* C37 as stated: the page number of L is at least 1 and at most
\* max(1, ceil(total / pageSize)), whichever of setItems, nextPage and
\* prevPage have been called.
C37_AsStated ==
    /\ 1 <= obj["L"][PageKey].n
    /\ obj["L"][PageKey].n <= (IF PageCount > 1 THEN PageCount ELSE 1)

(* Further claims about clicks (TapSpec). *)

\* C38 as stated: when px64.bind(app, o) has returned and the user then
\* clicks q, the action element with data-tap="go" directly under app, the
\* function go of o is called once, on o: also when app had been bound to
\* another record before.
C38_AsStated ==
    [][ (/\ last.op = "bind" /\ ~last.threw /\ last.value = ElemVal("app")
         /\ last'.op = "click" /\ last'.value = ElemVal("q"))
            => fired' = << EventCall("go", Ref(last.o), "q") >> ]_vars

----------------------------------------------------------------------------
(***************************************************************************)
(* Moving bound elements inside the document.  The page is                 *)
(*   body > root > { a, b, box }                                           *)
(* where a and b carry data-bind="text:count".  The application binds root *)
(* to S, moves a and b between root and box with appendChild, removes b,   *)
(* and sets S.count; the host delivers the mutation records and runs the   *)
(* armed flush.                                                            *)
(***************************************************************************)

MoveElems == {Body, "root", "a", "b", "box"}

\* The most removal records that wait for the MutationObserver's callback.
MaxMoves == 2

MoveInit ==
    /\ obj = [o \in {"S"} |-> (CountKey :> Num(5))]
    /\ OBS = [o \in {} |-> << >>]
    /\ calls = << >>
    /\ unsubCalled = {}
    /\ updateQueue = << >>
    /\ isUpdateScheduled = FALSE
    /\ scheduledFlushes = 0
    /\ schedCount = [c \in UserCbNames |-> 0]
    /\ ran = << >>
    /\ textContent = [e \in MoveElems |-> IF e \in {"a", "b"} THEN Placeholder ELSE << >>]
    /\ dataBind = [e \in {"a", "b"} |-> AttrTextCount]
    /\ scopeIdAttr = [e \in {} |-> << >>]
    /\ scopeRegistry = [i \in {} |-> Undefined]
    /\ scopeCounter = 0
    /\ elementObservers = [e \in {} |-> << >>]
    /\ tapInstalled = {}
    /\ observerStarted = FALSE
    /\ fnCounter = 0
    /\ childNodes = [e \in MoveElems |->
                       CASE e = Body   -> << "root" >>
                         [] e = "root" -> << "a", "b", "box" >>
                         [] OTHER      -> << >>]
    /\ dataTap = [e \in {} |-> << >>]
    /\ elAttr = [a \in {} |-> << >>]
    /\ warnings = << >>
    /\ elValue = [e \in {} |-> << >>]
    /\ clickListeners = [e \in {} |-> 0]
    /\ inputListeners = << >>
    /\ mutations = << >>
    /\ listBinders = << >>
    /\ nodeCounter = 0
    /\ cleaned = << >>
    /\ removedElems = {}
    /\ dispatched = << >>
    /\ fired = << >>
    /\ last = NoOp

\* Application code calls p2.appendChild(e) for an element e that has a
\* parent: e is taken out of its parent and becomes the last child of p2.
\* The MutationObserver, if it observes the old parent, is told later of e
\* as a removed node.
AppendChild(p2, e) ==
    \E p \in {ParentNode(childNodes, e)} :
        \E st \in {[Handler EXCEPT !.kids[p] = SetDelete(@, e)]} :
            Finish([st EXCEPT !.kids[p2] = Append(@, e),
                              !.muts = IF IsObserved(Handler, p)
                                       THEN Append(@, e) ELSE @],
                   Op("appendChild", "", << >>, NoFn, ElemVal(e), ElemVal(p2), FALSE))

\* Application code calls px64.bind(root, S), once.
MoveBind ==
    /\ scopeCounter = 0
    /\ Bind("root", "S")
    /\ calls' = << >>
    /\ ran' = << >>
    /\ UNCHANGED << unsubCalled, schedCount, fired >>

\* Application code moves a or b to the end of root or of box.
MoveAppend ==
    \E e \in {"a", "b"} : \E p2 \in {"root", "box"} :
        /\ \E p \in DOMAIN childNodes : e \in Range(childNodes[p])
        /\ Len(mutations) < MaxMoves
        /\ AppendChild(p2, e)
        /\ calls' = << >>
        /\ ran' = << >>
        /\ UNCHANGED << unsubCalled, schedCount, fired >>

\* Application code removes b from the document.
MoveRemove ==
    /\ \E p \in DOMAIN childNodes : "b" \in Range(childNodes[p])
    /\ Len(mutations) < MaxMoves
    /\ Remove("b")
    /\ calls' = << >>
    /\ ran' = << >>
    /\ UNCHANGED << unsubCalled, schedCount, fired >>

\* The host runs the MutationObserver's callback.
MoveDetect ==
    /\ Detect
    /\ calls' = << >>
    /\ ran' = << >>
    /\ UNCHANGED << unsubCalled, schedCount, fired >>

\* Application code calls S.$set('count', v) while no callback is pending.
MoveSet ==
    \E v \in {5, 6} :
        /\ "S" \in DOMAIN OBS
        /\ updateQueue = << >>
        /\ Set("S", CountKey, Num(v))
        /\ ran' = << >>
        /\ UNCHANGED << unsubCalled, schedCount, cleaned, removedElems, dispatched, fired >>

\* The host runs the armed flush.
MoveFlush ==
    /\ Flush
    /\ calls' = << >>
    /\ UNCHANGED << unsubCalled, schedCount, fired >>

MoveNext ==
    \/ MoveBind
    \/ MoveAppend
    \/ MoveRemove
    \/ MoveDetect
    \/ MoveSet
    \/ MoveFlush

MoveSpec == MoveInit /\ [][MoveNext]_vars

----------------------------------------------------------------------------
(* Claims about moved elements (MoveSpec). *)

\* C40 as stated: the bound element a, which never leaves the document and
\* is only moved inside it, keeps its subscriptions, and whenever no update
\* is pending it shows the current value of S.count.
C40_AsStated ==
    ("root" \in DOMAIN scopeIdAttr /\ InDocument(childNodes, "a")) =>
        /\ "a" \in DOMAIN elementObservers
        /\ updateQueue = << >> => textContent["a"] = ToStr(obj["S"][CountKey])

====
